---- MODULE Spec2Model ----
(***************************************************************************)
(* A model of llm-chat-msg-compressor: the four encoding strategies, the   *)
(* speculative multi-pass Optimizer and the format-sniffing restore().     *)
(*                                                                         *)
(* JSON values are tagged records.  Arrays and objects carry the identity  *)
(* of the JavaScript node they stand for: id 0 is a node allocated by the  *)
(* library during a call, id n > 0 is node n of the caller's own tree.  A  *)
(* copy by reference (dst[i] = val) keeps the id, a rebuilt node gets id   *)
(* 0, and an in-place write is applied to every value that holds the node. *)
(* Objects keep insertion order: their entries are a sequence of           *)
(* [key, val] pairs with unique keys.  A value that holds one of its own   *)
(* ancestors is a tree with a back edge: the slot holds the identity of    *)
(* the ancestor.  A node held in two places has the same identity twice.   *)
(*                                                                         *)
(* The strategy instances are shared by all calls (the Optimizer keeps one *)
(* of each, the module one Optimizer).  left holds, per instance, the      *)
(* working tables its last compress call ended with; again holds a later   *)
(* call made with the argument of the first one.                           *)
(***************************************************************************)
EXTENDS Integers, Sequences, FiniteSets, TLC

VARIABLES data, input0, DICT, pc, op, exit, result, restored, current, opts, attempted, accepted, log,
          left, again

vars == <<data, input0, DICT, pc, op, exit, result, restored, current, opts, attempted, accepted, log,
          left, again>>

-----------------------------------------------------------------------------
(* The value model *)

Null == [k |-> "null"]

Undef == [k |-> "undef"]

Thrown == [k |-> "error"]

\* A call that never returns: the loop runs until the process is stopped or the
\* heap is exhausted.
Diverges == [k |-> "loop"]

\* A function found on Object.prototype (the value of item["constructor"] when item
\* does not own the key).
Func == [k |-> "func"]

\* A slot that holds the ancestor node of identity n: the value is cyclic.
BackEdge(n) == [k |-> "cycle", v |-> n]

\* A Date object: not a plain object, so every traversal takes it for a leaf; it
\* has an identity like any object, and v is its toISOString().
DateLeaf(i) == [k |-> "date", id |-> i, v |-> "2020-01-01T00:00:00.000Z"]

Bool(b) == [k |-> "bool", v |-> b]

Num(n) == [k |-> "num", v |-> n]

Str(s) == [k |-> "str", v |-> s]

Arr(i, elems) == [k |-> "arr", id |-> i, v |-> elems]

Obj(i, ents) == [k |-> "obj", id |-> i, v |-> ents]

Ent(key, val) == [key |-> key, val |-> val]

\* The string yaml.dump(val): a string leaf that remembers what it serializes.
YamlText(val) == [k |-> "ytext", v |-> val]

IsArr(x) == x.k = "arr"

IsObj(x) == x.k = "obj"

IsComposite(x) == x.k \in {"arr", "obj"}

IsString(x) == x.k \in {"str", "ytext"}

\* JavaScript truthiness (the `data && data.m` tests).
Truthy(x) ==
    CASE x.k = "null" -> FALSE
      [] x.k = "undef" -> FALSE
      [] x.k = "bool" -> x.v
      [] x.k = "num" -> x.v # 0
      [] x.k = "str" -> x.v # ""
      [] OTHER -> TRUE

Keys(ents) == [i \in 1..Len(ents) |-> ents[i].key]

HasKey(ents, key) == \E i \in 1..Len(ents) : ents[i].key = key

GetKey(ents, key) == ents[CHOOSE i \in 1..Len(ents) : ents[i].key = key].val

\* obj[key] = val: an existing key keeps its place, a new key goes last.
SetKey(ents, key, val) ==
    IF HasKey(ents, key)
    THEN [i \in 1..Len(ents) |-> IF ents[i].key = key THEN Ent(key, val) ELSE ents[i]]
    ELSE Append(ents, Ent(key, val))

\* x[name] on any value: undefined unless x is an object that owns the key.
Prop(x, name) == IF IsObj(x) /\ HasKey(x.v, name) THEN GetKey(x.v, name) ELSE Undef

\* The property names every plain object inherits from Object.prototype, as far as
\* the keys of this model go.
InheritedKeys == {"constructor"}

\* String(Object): the property name an inherited function turns into.
NativeKey == "function Object() { [native code] }"

\* key in obj: an own key or an inherited one.
KeyIn(ents, key) == HasKey(ents, key) \/ key \in InheritedKeys

\* obj[key] for a plain object: its own value, or what the prototype holds.
ReadKey(ents, key) ==
    IF HasKey(ents, key) THEN GetKey(ents, key)
    ELSE IF key \in InheritedKeys THEN Func ELSE Undef

RECURSIVE SumSeq(_)
SumSeq(s) == IF Len(s) = 0 THEN 0 ELSE Head(s) + SumSeq(Tail(s))

RECURSIVE NumLen(_)
NumLen(n) == IF n < 0 THEN 1 + NumLen(0 - n) ELSE IF n < 10 THEN 1 ELSE 1 + NumLen(n \div 10)

\* The length of yaml.dump(x) once it is embedded in a JSON string (a line break is
\* the two characters \n there), block style, two spaces per level.
RECURSIVE YamlLen(_, _)
YamlLen(x, ind) ==
    CASE x.k = "null" -> 4 + 2
      [] x.k = "undef" -> 0
      [] x.k = "bool" -> (IF x.v THEN 4 ELSE 5) + 2
      [] x.k = "num" -> NumLen(x.v) + 2
      [] x.k = "str" -> (IF x.v = "" THEN 2 ELSE Len(x.v)) + 2
      [] x.k = "ytext" -> YamlLen(x.v, 0) + 2 + 2
      [] x.k = "arr" ->
           IF Len(x.v) = 0 THEN 2 + 2
           ELSE SumSeq([i \in 1..Len(x.v) |->
                    ind + 2 + (IF IsComposite(x.v[i]) /\ Len(x.v[i].v) > 0
                               THEN YamlLen(x.v[i], ind + 2) - (ind + 2)
                               ELSE YamlLen(x.v[i], ind + 2))])
      [] x.k = "obj" ->
           IF Len(x.v) = 0 THEN 2 + 2
           ELSE SumSeq([i \in 1..Len(x.v) |->
                    ind + Len(x.v[i].key) + 1 +
                    (IF IsComposite(x.v[i].val) /\ Len(x.v[i].val.v) > 0
                     THEN 2 + YamlLen(x.v[i].val, IF IsArr(x.v[i].val) THEN ind ELSE ind + 2)
                     ELSE 1 + YamlLen(x.v[i].val, ind + 2))])
      [] OTHER -> 0

\* Buffer.byteLength(JSON.stringify(x), "utf8") for the strings of this model (ASCII,
\* nothing to escape).  undefined is "null" in an array and is left out of an object.
RECURSIVE JsonLen(_)
JsonLen(x) ==
    CASE x.k = "null" -> 4
      [] x.k = "undef" -> 4
      [] x.k = "bool" -> IF x.v THEN 4 ELSE 5
      [] x.k = "num" -> NumLen(x.v)
      [] x.k = "str" -> Len(x.v) + 2
      [] x.k = "date" -> Len(x.v) + 2
      [] x.k = "ytext" -> YamlLen(x.v, 0) + 2
      [] x.k = "arr" ->
           2 + SumSeq([i \in 1..Len(x.v) |-> JsonLen(x.v[i])])
             + (IF Len(x.v) > 1 THEN Len(x.v) - 1 ELSE 0)
      [] x.k = "obj" ->
           LET shown == SelectSeq(x.v, LAMBDA e : e.val.k # "undef")
           IN 2 + SumSeq([i \in 1..Len(shown) |-> Len(shown[i].key) + 3 + JsonLen(shown[i].val)])
                + (IF Len(shown) > 1 THEN Len(shown) - 1 ELSE 0)
      [] OTHER -> 0

\* The digit characters of a string of this model: only the decimal index keys
\* and the reference ids r1, r2, ... hold any, one each.
DigitsIn(s) ==
    IF s \in {"0", "1", "2", "3", "4", "5", "6", "7", "8", "9",
              "r0", "r1", "r2", "r3", "r4", "r5", "r6", "r7", "r8", "r9"}
    THEN 1 ELSE 0

\* The number of digit characters of JSON.stringify(x): a cost function that looks at
\* the content of the text and not at its length.
RECURSIVE DigitCount(_)
DigitCount(x) ==
    CASE x.k = "num" -> IF x.v < 0 THEN NumLen(x.v) - 1 ELSE NumLen(x.v)
      [] x.k = "str" -> DigitsIn(x.v)
      [] x.k = "ytext" -> DigitCount(x.v)
      [] x.k = "arr" -> SumSeq([i \in 1..Len(x.v) |-> DigitCount(x.v[i])])
      [] x.k = "obj" ->
           SumSeq([i \in 1..Len(x.v) |->
                     IF x.v[i].val.k = "undef" THEN 0
                     ELSE DigitsIn(x.v[i].key) + DigitCount(x.v[i].val)])
      [] OTHER -> 0

\* Deep structural equality (jest's toEqual on JSON values): node identity and the
\* order of an object's keys do not count.
RECURSIVE DeepEq(_, _)
DeepEq(x, y) ==
    IF x.k # y.k THEN FALSE
    ELSE CASE x.k = "arr" ->
                /\ Len(x.v) = Len(y.v)
                /\ \A i \in 1..Len(x.v) : DeepEq(x.v[i], y.v[i])
           [] x.k = "obj" ->
                /\ Len(x.v) = Len(y.v)
                /\ \A i \in 1..Len(x.v) :
                      /\ HasKey(y.v, x.v[i].key)
                      /\ DeepEq(x.v[i].val, GetKey(y.v, x.v[i].key))
           [] x.k = "ytext" -> DeepEq(x.v, y.v)
           [] x.k \in {"null", "undef", "error", "loop", "func"} -> TRUE
           [] OTHER -> x.v = y.v

\* The same tree with every node freshly allocated.
RECURSIVE Fresh(_)
Fresh(x) ==
    CASE x.k = "arr" -> Arr(0, [i \in 1..Len(x.v) |-> Fresh(x.v[i])])
      [] x.k = "obj" -> Obj(0, [i \in 1..Len(x.v) |-> Ent(x.v[i].key, Fresh(x.v[i].val))])
      [] OTHER -> x

\* The number of array and object nodes of a tree.
RECURSIVE NodeCount(_)
NodeCount(x) ==
    CASE x.k = "arr" -> 1 + SumSeq([i \in 1..Len(x.v) |-> NodeCount(x.v[i])])
      [] x.k = "obj" -> 1 + SumSeq([i \in 1..Len(x.v) |-> NodeCount(x.v[i].val)])
      [] OTHER -> 0

\* The caller's tree: its nodes are numbered n, n+1, ... in pre-order.
RECURSIVE Label(_, _)
Label(x, n) ==
    CASE x.k = "arr" ->
           Arr(n, [i \in 1..Len(x.v) |->
                     Label(x.v[i], n + 1 + SumSeq([j \in 1..(i - 1) |-> NodeCount(x.v[j])]))])
      [] x.k = "obj" ->
           Obj(n, [i \in 1..Len(x.v) |->
                     Ent(x.v[i].key,
                         Label(x.v[i].val, n + 1 + SumSeq([j \in 1..(i - 1) |-> NodeCount(x.v[j].val)])))])
      [] OTHER -> x

\* Whether a value holds one of its own ancestors.
RECURSIVE HasBackEdge(_)
HasBackEdge(x) ==
    CASE x.k = "cycle" -> TRUE
      [] x.k = "arr" -> \E i \in 1..Len(x.v) : HasBackEdge(x.v[i])
      [] x.k = "obj" -> \E i \in 1..Len(x.v) : HasBackEdge(x.v[i].val)
      [] OTHER -> FALSE

\* The identities of the plain objects of a tree.
RECURSIVE ObjIds(_)
ObjIds(x) ==
    CASE x.k = "arr" -> UNION {ObjIds(x.v[i]) : i \in 1..Len(x.v)}
      [] x.k = "obj" -> {x.id} \cup UNION {ObjIds(x.v[i].val) : i \in 1..Len(x.v)}
      [] OTHER -> {}

\* The identities of the nodes of a tree.
RECURSIVE NodeIds(_)
NodeIds(x) ==
    CASE x.k = "arr" -> {x.id} \cup UNION {NodeIds(x.v[i]) : i \in 1..Len(x.v)}
      [] x.k = "obj" -> {x.id} \cup UNION {NodeIds(x.v[i].val) : i \in 1..Len(x.v)}
      [] x.k = "ytext" -> NodeIds(x.v)
      [] OTHER -> {}

-----------------------------------------------------------------------------
(* Key dictionaries and short keys *)

Letters ==
    <<"a", "b", "c", "d", "e", "f", "g", "h", "i", "j", "k", "l", "m",
      "n", "o", "p", "q", "r", "s", "t", "u", "v", "w", "x", "y", "z">>

\* a, b, ..., z, aa, ab, ...
RECURSIVE ShortKeyFrom(_, _)
ShortKeyFrom(temp, shortKey) ==
    LET sk == Letters[(temp % 26) + 1] \o shortKey
        t == (temp \div 26) - 1
    IN IF t >= 0 THEN ShortKeyFrom(t, sk) ELSE sk

generateShortKey(index) == ShortKeyFrom(index, "")

\* AbbreviatedKeysStrategy.DICT as shipped, in source order.
DefaultDict ==
    << <<"role", "a">>, <<"content", "b">>, <<"message", "c">>, <<"messages", "d">>,
       <<"user", "e">>, <<"assistant", "f">>, <<"system", "g">>, <<"name", "h">>,
       <<"id", "i">>, <<"timestamp", "j">>, <<"source", "k">>, <<"meta", "l">>,
       <<"text", "m">>, <<"input", "n">>, <<"output", "o">>, <<"reply", "p">>,
       <<"context", "q">>, <<"description", "r">>, <<"type", "s">>, <<"error", "t">>,
       <<"status", "u">>, <<"result", "v">>, <<"value", "w">>, <<"items", "x">>,
       <<"data", "y">>, <<"payload", "z">>, <<"options", "aa">>, <<"params", "ab">> >>

\* A caller's customDict (tests/custom-dict.test.ts uses { auth: "z" }).
CustomDict == << <<"description", "z">> >>

\* The dictionary object a reference to it stands for.
DictEntries(ref) == IF ref = "custom" THEN CustomDict ELSE DefaultDict

\* key in dict: the dictionary is a plain object, so an inherited name is "in" it.
InDict(dict, key) == (\E i \in 1..Len(dict) : dict[i][1] = key) \/ key \in InheritedKeys

\* dict[key], used as a property name.
DictGet(dict, key) ==
    IF \E i \in 1..Len(dict) : dict[i][1] = key
    THEN dict[CHOOSE i \in 1..Len(dict) : dict[i][1] = key][2]
    ELSE NativeKey

\* staticReverse[short] is truthy: the last original key whose token is short, or
\* what the plain object staticReverse inherits under that name.
HasStaticReverse(dict, short) ==
    \/ \E i \in 1..Len(dict) : dict[i][2] = short /\ dict[i][1] # ""
    \/ (short \in InheritedKeys /\ ~\E i \in 1..Len(dict) : dict[i][2] = short)

StaticReverse(dict, short) ==
    LET hits == {i \in 1..Len(dict) : dict[i][2] = short}
    IN IF hits = {} THEN NativeKey ELSE dict[CHOOSE i \in hits : \A j \in hits : j <= i][1]

-----------------------------------------------------------------------------
(* Strategy 2: Abbreviated Keys *)

\* The first pass of compress: the scan skips a node it has already visited (a node
\* held in two places, or an ancestor met again).
RECURSIVE FreqScan(_, _, _)
FreqScan(stackScan, visitedScan, key) ==
    IF Len(stackScan) = 0 THEN 0
    ELSE LET node == stackScan[Len(stackScan)]
             rest == SubSeq(stackScan, 1, Len(stackScan) - 1)
         IN IF ~IsComposite(node) \/ (node.id > 0 /\ node.id \in visitedScan)
            THEN FreqScan(rest, visitedScan, key)
            ELSE IF IsArr(node)
            THEN FreqScan(rest \o node.v, visitedScan \cup {node.id}, key)
            ELSE (IF HasKey(node.v, key) THEN 1 ELSE 0)
                   + FreqScan(rest \o [i \in 1..Len(node.v) |-> node.v[i].val],
                              visitedScan \cup {node.id}, key)

\* freq.get(key): how many objects of the tree own the key.
KeyFreq(x, key) == FreqScan(<<x>>, {}, key)

shouldAbbreviate(key, dict, root) ==
    \/ InDict(dict, key)
    \/ Len(key) > 4
    \/ KeyFreq(root, key) > 2

SeqHas(s, x) == \E i \in 1..Len(s) : s[i] = x

IndexOf(s, x) == CHOOSE i \in 1..Len(s) : s[i] = x

\* The keys that are given a dynamic short key, in the order of their first
\* getShortKey call: the walk of transform's explicit stack (the top is the last
\* element).  Only plain objects are pushed; an array is entered only as the root.
RECURSIVE AbbrevKeyOrder(_, _, _, _)
AbbrevKeyOrder(stack, keyMap, dict, root) ==
    IF Len(stack) = 0 THEN keyMap
    ELSE LET src == stack[Len(stack)]
             rest == SubSeq(stack, 1, Len(stack) - 1)
             vals == IF IsArr(src) THEN src.v ELSE [i \in 1..Len(src.v) |-> src.v[i].val]
             pushed == SelectSeq(vals, IsObj)
             wanted == IF IsArr(src) THEN <<>>
                       ELSE SelectSeq(Keys(src.v),
                                LAMBDA key : ~InDict(dict, key) /\ shouldAbbreviate(key, dict, root))
             added == SelectSeq(wanted, LAMBDA key : ~SeqHas(keyMap, key))
         IN AbbrevKeyOrder(rest \o pushed, keyMap \o added, dict, root)

\* getShortKey(key) for a key of keyMap.
getShortKey(keyMap, key) == generateShortKey(IndexOf(keyMap, key) - 1)

\* The key an object key is written under in the body.
AbbrevTargetKey(key, keyMap, dict, root) ==
    IF InDict(dict, key) THEN DictGet(dict, key)
    ELSE IF shouldAbbreviate(key, dict, root) THEN getShortKey(keyMap, key)
    ELSE key

\* The object that results from the assignments dst[e.key] = e.val in order.
RECURSIVE Assign(_, _)
Assign(ents, acc) ==
    IF Len(ents) = 0 THEN acc
    ELSE Assign(Tail(ents), SetKey(acc, Head(ents).key, Head(ents).val))

\* transform: a plain object is rebuilt; everything else that hangs below a node,
\* an array included (isPlainObject is false for it), is copied by reference.
RECURSIVE AbbrevTransform(_, _, _, _)
AbbrevTransform(src, keyMap, dict, root) ==
    LET child(val) == IF IsObj(val) THEN AbbrevTransform(val, keyMap, dict, root) ELSE val
    IN CASE src.k = "arr" -> Arr(0, [i \in 1..Len(src.v) |-> child(src.v[i])])
         [] src.k = "obj" ->
              Obj(0, Assign([i \in 1..Len(src.v) |->
                               Ent(AbbrevTargetKey(src.v[i].key, keyMap, dict, root),
                                   child(src.v[i].val))], <<>>))
         [] OTHER -> src

\* Object.fromEntries(keyMap)
KeyMapObject(keyMap) ==
    Obj(0, Assign([i \in 1..Len(keyMap) |-> Ent(keyMap[i], Str(generateShortKey(i - 1)))], <<>>))

\* The nodes transform's stack holds a frame for: the root and every plain object
\* that hangs directly below a walked node (an array below a node is not entered).
RECURSIVE WalkedNodes(_, _)
WalkedNodes(stack, walked) ==
    IF Len(stack) = 0 THEN walked
    ELSE LET src == stack[Len(stack)]
             rest == SubSeq(stack, 1, Len(stack) - 1)
             vals == IF IsArr(src) THEN src.v ELSE [i \in 1..Len(src.v) |-> src.v[i].val]
         IN WalkedNodes(rest \o SelectSeq(vals, IsObj), Append(walked, src))

\* The walk comes to a plain object that is one of its own ancestors.
WalkMeetsAncestor(root) ==
    /\ IsComposite(root)
    /\ LET walked == WalkedNodes(<<root>>, <<>>)
           held(src) == IF IsArr(src) THEN src.v ELSE [i \in 1..Len(src.v) |-> src.v[i].val]
       IN \E i \in 1..Len(walked) : \E j \in 1..Len(held(walked[i])) :
             /\ held(walked[i])[j].k = "cycle"
             /\ held(walked[i])[j].v \in ObjIds(root)

\* The walk comes twice to a plain object that is held in two places.  (The nodes
\* the library allocates are held once.)
WalkMeetsShared(root) ==
    /\ IsComposite(root)
    /\ LET walked == WalkedNodes(<<root>>, <<>>)
       IN \E i \in 1..Len(walked) : \E j \in 1..Len(walked) :
             i < j /\ walked[i].id > 0 /\ walked[i].id = walked[j].id

\* transform's visited set: a node met a second time is taken for a cycle.
AbbrevThrows(x) == WalkMeetsAncestor(x) \/ WalkMeetsShared(x)

\* An instance that kept its key map and counter from one call to the next.
AbbrevKeptKeyMap == left.abbrev

\* const keyMap = new Map(); let counter = 0: every call starts with an empty map.
AbbrevNewKeyMap == <<>>

\* The key map a compress call ends with.
AbbrevLocals(x, dict) ==
    IF IsComposite(x) THEN AbbrevKeyOrder(<<x>>, AbbrevNewKeyMap, dict, x) ELSE AbbrevNewKeyMap

AbbrevCompress(x, dict) ==
    LET keyMap == AbbrevLocals(x, dict)
    IN IF AbbrevThrows(x) THEN Thrown
       ELSE Obj(0, <<Ent("m", KeyMapObject(keyMap)), Ent("d", AbbrevTransform(x, keyMap, dict, x))>>)

\* The small decimal strings that index an array in a for-in loop.
IndexKey(i) == <<"0", "1", "2", "3", "4", "5", "6", "7", "8", "9">>[i + 1]

\* for (const k in pkg.m): the own enumerable properties of pkg.m with their values.
\* (A string has one property per character: the strings of this model have at most one.)
OwnEntries(m) ==
    CASE m.k = "obj" -> m.v
      [] m.k = "arr" -> [i \in 1..Len(m.v) |-> Ent(IndexKey(i - 1), m.v[i])]
      [] m.k = "str" -> IF m.v = "" THEN <<>> ELSE <<Ent("0", Str(m.v))>>
      [] OTHER -> <<>>

\* reverseMap.get(k) || k, then the static reverse mapping when that gave k itself.
OriginalKey(k, m, dict) ==
    LET ents == OwnEntries(m)
        hits == {i \in 1..Len(ents) : ents[i].val = Str(k)}
        rev == IF hits = {} THEN k
               ELSE LET orig == ents[CHOOSE i \in hits : \A j \in hits : j <= i].key
                    IN IF orig = "" THEN k ELSE orig
    IN IF rev = k /\ HasStaticReverse(dict, k) THEN StaticReverse(dict, k) ELSE rev

\* decompress's transform: every array and object is rebuilt, keys are mapped back.
RECURSIVE KeyRestore(_, _, _)
KeyRestore(src, m, dict) ==
    CASE src.k = "arr" -> Arr(0, [i \in 1..Len(src.v) |-> KeyRestore(src.v[i], m, dict)])
      [] src.k = "obj" ->
           Obj(0, Assign([i \in 1..Len(src.v) |->
                            Ent(OriginalKey(src.v[i].key, m, dict),
                                KeyRestore(src.v[i].val, m, dict))], <<>>))
      [] OTHER -> src

AbbrevDecompress(pkg, dict) ==
    IF ~Truthy(pkg) \/ ~Truthy(Prop(pkg, "m")) \/ Prop(pkg, "d").k = "undef" THEN pkg
    ELSE KeyRestore(Prop(pkg, "d"), Prop(pkg, "m"), dict)

-----------------------------------------------------------------------------
(* Strategy 4: Ultra Compact *)

\* The keys in the order of their first getShortKey call: every key of every plain
\* object the walk enters.
RECURSIVE UltraKeyOrder(_, _)
UltraKeyOrder(stack, keyMap) ==
    IF Len(stack) = 0 THEN keyMap
    ELSE LET src == stack[Len(stack)]
             rest == SubSeq(stack, 1, Len(stack) - 1)
             vals == IF IsArr(src) THEN src.v ELSE [i \in 1..Len(src.v) |-> src.v[i].val]
             pushed == SelectSeq(vals, IsObj)
             added == IF IsArr(src) THEN <<>>
                      ELSE SelectSeq(Keys(src.v), LAMBDA key : ~SeqHas(keyMap, key))
         IN UltraKeyOrder(rest \o pushed, keyMap \o added)

\* true -> 1, false -> 0 when unsafe.
BoolToNum(val, unsafe) ==
    IF unsafe /\ val.k = "bool" THEN Num(IF val.v THEN 1 ELSE 0) ELSE val

\* transform: as in Abbreviated Keys, a plain object is rebuilt and anything else,
\* an array included, is copied by reference.
RECURSIVE UltraTransform(_, _, _)
UltraTransform(src, keyMap, unsafe) ==
    LET child(val) == IF IsObj(val) THEN UltraTransform(val, keyMap, unsafe)
                      ELSE BoolToNum(val, unsafe)
    IN CASE src.k = "arr" -> Arr(0, [i \in 1..Len(src.v) |-> child(src.v[i])])
         [] src.k = "obj" ->
              Obj(0, Assign([i \in 1..Len(src.v) |->
                               Ent(getShortKey(keyMap, src.v[i].key), child(src.v[i].val))], <<>>))
         [] OTHER -> BoolToNum(src, unsafe)

\* A compress without the post-pass.
NoSweep(x) == x

\* The unsafe post-pass: every Boolean held by an array or an object reachable from
\* the body is overwritten in place (the nodes keep their identity).
RECURSIVE BoolSweep(_)
BoolSweep(x) ==
    CASE x.k = "arr" -> Arr(x.id, [i \in 1..Len(x.v) |-> BoolSweep(BoolToNum(x.v[i], TRUE))])
      [] x.k = "obj" ->
           Obj(x.id, [i \in 1..Len(x.v) |-> Ent(x.v[i].key, BoolSweep(BoolToNum(x.v[i].val, TRUE)))])
      [] OTHER -> x

\* Neither transform nor the post-pass keeps a record of the nodes it has entered:
\* transform never ends when its walk comes back to an ancestor, and the post-pass,
\* which enters the arrays too, never ends on any value that holds an ancestor.
UltraDiverges(x, unsafe) == WalkMeetsAncestor(x) \/ (unsafe /\ HasBackEdge(x))

\* const keyMap = new Map(); let counter = 0
UltraNewKeyMap == <<>>

\* The key map a compress call ends with.
UltraLocals(x) ==
    IF IsComposite(x) THEN UltraKeyOrder(<<x>>, UltraNewKeyMap) ELSE UltraNewKeyMap

UltraCompress(x, unsafe) ==
    LET keyMap == UltraLocals(x)
        body == UltraTransform(x, keyMap, unsafe)
    IN IF UltraDiverges(x, unsafe) THEN Diverges
       ELSE Obj(0, <<Ent("m", KeyMapObject(keyMap)),
                     Ent("d", IF unsafe THEN BoolSweep(body) ELSE body)>>)

\* What the post-pass leaves of a value that shares nodes with the body: the nodes
\* whose identity is in ids have had their Booleans overwritten.
RECURSIVE SweepNodes(_, _)
SweepNodes(x, ids) ==
    LET elem(val) == SweepNodes(IF x.id \in ids THEN BoolToNum(val, TRUE) ELSE val, ids)
    IN CASE x.k = "arr" -> Arr(x.id, [i \in 1..Len(x.v) |-> elem(x.v[i])])
         [] x.k = "obj" -> Obj(x.id, [i \in 1..Len(x.v) |-> Ent(x.v[i].key, elem(x.v[i].val))])
         [] OTHER -> x

\* compress's argument after the call: the arrays the body took by reference have
\* been swept, whoever else holds them.
RECURSIVE UltraArgAfter(_, _)
UltraArgAfter(src, unsafe) ==
    LET child(val) == IF IsObj(val) THEN UltraArgAfter(val, unsafe)
                      ELSE IF unsafe THEN BoolSweep(val) ELSE val
    IN CASE src.k = "arr" -> Arr(src.id, [i \in 1..Len(src.v) |-> child(src.v[i])])
         [] src.k = "obj" -> Obj(src.id, [i \in 1..Len(src.v) |-> Ent(src.v[i].key, child(src.v[i].val))])
         [] OTHER -> src

\* The caller's nodes (id > 0) that the post-pass wrote to.
UltraSweptIds(x, unsafe) ==
    IF unsafe THEN NodeIds(Prop(UltraCompress(x, FALSE), "d")) \ {0} ELSE {}

UltraDecompress(pkg, dict) ==
    IF ~Truthy(pkg) \/ ~Truthy(Prop(pkg, "m")) \/ Prop(pkg, "d").k = "undef" THEN pkg
    ELSE KeyRestore(Prop(pkg, "d"), Prop(pkg, "m"), dict)

-----------------------------------------------------------------------------
(* Strategy 3: Schema-Data Separation *)

\* The uniform-array test of compress: a non-empty array whose elements are all
\* objects with the key set of the first one.
IsUniform(src) ==
    /\ Len(src.v) > 0
    /\ IsObj(src.v[1])
    /\ \A i \in 2..Len(src.v) :
          /\ IsObj(src.v[i])
          /\ Len(src.v[i].v) = Len(src.v[1].v)
          /\ \A j \in 1..Len(src.v[1].v) : KeyIn(src.v[i].v, src.v[1].v[j].key)

RECURSIVE SchemaTransform(_)
SchemaTransform(src) ==
    CASE src.k = "arr" ->
           IF IsUniform(src)
           THEN LET keys == Keys(src.v[1].v)
                IN Obj(0, <<Ent("$s", Arr(0, [j \in 1..Len(keys) |-> Str(keys[j])])),
                            Ent("$d", Arr(0, [i \in 1..Len(src.v) |->
                                   Arr(0, [j \in 1..Len(keys) |->
                                          SchemaTransform(ReadKey(src.v[i].v, keys[j]))])]))>>)
           ELSE Arr(0, [i \in 1..Len(src.v) |-> SchemaTransform(src.v[i])])
      [] src.k = "obj" ->
           Obj(0, [i \in 1..Len(src.v) |-> Ent(src.v[i].key, SchemaTransform(src.v[i].val))])
      [] OTHER -> src

\* The walk keeps no record of the nodes it has entered: on a value that holds one
\* of its own ancestors the stack never empties.
SchemaCompress(x) == IF HasBackEdge(x) THEN Diverges ELSE SchemaTransform(x)

\* Whether a tree holds the mark of a raised exception.
RECURSIVE HasThrown(_)
HasThrown(x) ==
    CASE x.k = "error" -> TRUE
      [] x.k = "arr" -> \E i \in 1..Len(x.v) : HasThrown(x.v[i])
      [] x.k = "obj" -> \E i \in 1..Len(x.v) : HasThrown(x.v[i].val)
      [] OTHER -> FALSE

\* row[j] for a row of $d that may be anything: reading a property of null or
\* undefined throws.
RowAt(row, j) ==
    CASE row.k = "arr" -> IF j <= Len(row.v) THEN row.v[j] ELSE Undef
      [] row.k = "obj" -> Prop(row, IndexKey(j - 1))
      [] row.k = "str" -> IF j = 1 /\ row.v # "" THEN row ELSE Undef
      [] row.k \in {"null", "undef"} -> Thrown
      [] OTHER -> Undef

\* A value used as a property name.
PropName(x) ==
    CASE x.k = "str" -> x.v
      [] x.k = "num" -> IF x.v \in 0..9 THEN IndexKey(x.v) ELSE "number"
      [] x.k = "bool" -> IF x.v THEN "true" ELSE "false"
      [] x.k = "null" -> "null"
      [] x.k = "undef" -> "undefined"
      [] x.k = "arr" -> IF Len(x.v) = 0 THEN "" ELSE "array"
      [] OTHER -> "[object Object]"

IsSchemaRecord(src) ==
    /\ IsObj(src)
    /\ Prop(src, "$s").k = "arr"
    /\ Prop(src, "$d").k = "arr"

RECURSIVE SchemaRestore(_)
SchemaRestore(src) ==
    IF IsSchemaRecord(src)
    THEN LET keys == Prop(src, "$s").v
             dataArr == Prop(src, "$d").v
         IN Arr(0, [i \in 1..Len(dataArr) |->
                Obj(0, Assign([j \in 1..Len(keys) |->
                          Ent(PropName(keys[j]), SchemaRestore(RowAt(dataArr[i], j)))], <<>>))])
    ELSE CASE src.k = "arr" -> Arr(0, [i \in 1..Len(src.v) |-> SchemaRestore(src.v[i])])
           [] src.k = "obj" ->
                Obj(0, [i \in 1..Len(src.v) |-> Ent(src.v[i].key, SchemaRestore(src.v[i].val))])
           [] OTHER -> src

SchemaDecompress(x) ==
    LET r == SchemaRestore(x) IN IF HasThrown(r) THEN Thrown ELSE r

-----------------------------------------------------------------------------
(* Strategy 4: Structural Deduplication *)

\* constructor default: this.options.minSizeBytes ?? 64
DefaultMinSizeBytes == 64

\* Buffer.byteLength(canonicalStringify(x)): the JSON length, but for undefined,
\* which the helper renders as nothing in an array and as "undefined" in an object.
RECURSIVE CanonLen(_)
CanonLen(x) ==
    CASE x.k = "arr" ->
           2 + SumSeq([i \in 1..Len(x.v) |-> IF x.v[i].k = "undef" THEN 0 ELSE CanonLen(x.v[i])])
             + (IF Len(x.v) > 1 THEN Len(x.v) - 1 ELSE 0)
      [] x.k = "obj" ->
           2 + SumSeq([i \in 1..Len(x.v) |-> Len(x.v[i].key) + 3 +
                          (IF x.v[i].val.k = "undef" THEN 9 ELSE CanonLen(x.v[i].val))])
             + (IF Len(x.v) > 1 THEN Len(x.v) - 1 ELSE 0)
      [] OTHER -> JsonLen(x)

\* The comparison of two canonical strings had the keys not been sorted: the order
\* of an object's keys would count.
RECURSIVE SameCanonUnsorted(_, _)
SameCanonUnsorted(x, y) ==
    IF x.k # y.k THEN FALSE
    ELSE CASE x.k = "arr" ->
                /\ Len(x.v) = Len(y.v)
                /\ \A i \in 1..Len(x.v) : SameCanonUnsorted(x.v[i], y.v[i])
           [] x.k = "obj" ->
                /\ Len(x.v) = Len(y.v)
                /\ \A i \in 1..Len(x.v) :
                      /\ x.v[i].key = y.v[i].key
                      /\ SameCanonUnsorted(x.v[i].val, y.v[i].val)
           [] OTHER -> DeepEq(x, y)

\* Two nodes have the same canonical string: the keys are sorted there, so this is
\* deep equality whatever the key order.
SameCanon(x, y) == DeepEq(x, y)

\* The first pass: the composite nodes in the order the stack visits them.
RECURSIVE DedupVisit(_, _)
DedupVisit(stack, seen) ==
    IF Len(stack) = 0 THEN seen
    ELSE LET node == stack[Len(stack)]
             rest == SubSeq(stack, 1, Len(stack) - 1)
         IN IF ~IsComposite(node) THEN DedupVisit(rest, seen)
            ELSE DedupVisit(rest \o (IF IsArr(node) THEN node.v
                                     ELSE [i \in 1..Len(node.v) |-> node.v[i].val]),
                            Append(seen, node))

\* const counts = new Map(); const repr = new Map()
DedupNewCounts == <<>>

\* The nodes counted when the first pass of a compress call ends.
DedupLocals(x) == DedupVisit(<<x>>, DedupNewCounts)

\* counts.get(canon) for the canonical form of node.
CanonCount(seen, node) == Cardinality({i \in 1..Len(seen) : SameCanon(seen[i], node)})

\* repr and candidates: the first node seen of each canonical form that occurs more
\* than once and is at least minSize long, in the order of counts' insertion.
DedupCandidates(x, minSize) ==
    LET seen == DedupLocals(x)
        firsts == {i \in 1..Len(seen) : \A j \in 1..(i - 1) : ~SameCanon(seen[j], seen[i])}
        chosen == {i \in firsts : CanonCount(seen, seen[i]) > 1 /\ CanonLen(seen[i]) >= minSize}
        order[n \in 0..Len(seen)] ==
            IF n = 0 THEN <<>>
            ELSE IF n \in chosen THEN Append(order[n - 1], seen[n]) ELSE order[n - 1]
    IN order[Len(seen)]

\* `r${++idCounter}`
RefId(i) == "r" \o IndexKey(i)

\* A transform that left the representative node of a form in place and replaced
\* only the other occurrences.
IsCandidateCopy(cands, src) ==
    \E i \in 1..Len(cands) : SameCanon(cands[i], src) /\ cands[i].id # src.id

\* candidates.has(canon)
IsCandidate(cands, src) == \E i \in 1..Len(cands) : SameCanon(cands[i], src)

CandidateId(cands, src) == RefId(CHOOSE i \in 1..Len(cands) : SameCanon(cands[i], src))

\* The second pass: a candidate becomes { $ref: id }, every other node is rebuilt.
RECURSIVE DedupTransform(_, _)
DedupTransform(src, cands) ==
    IF ~IsComposite(src) THEN src
    ELSE IF IsCandidate(cands, src) THEN Obj(0, <<Ent("$ref", Str(CandidateId(cands, src)))>>)
    ELSE IF IsArr(src) THEN Arr(0, [i \in 1..Len(src.v) |-> DedupTransform(src.v[i], cands)])
    ELSE Obj(0, [i \in 1..Len(src.v) |-> Ent(src.v[i].key, DedupTransform(src.v[i].val, cands))])

\* registry[id] = repr.get(canon): the representative node itself.
DedupRegistry(cands) == Obj(0, [i \in 1..Len(cands) |-> Ent(RefId(i), cands[i])])

\* canonicalStringify tracks the ancestors of the node it is in.
CanonicalThrows(x) == HasBackEdge(x)

DedupCompress(x, minSize) ==
    IF ~IsComposite(x) THEN x
    ELSE IF CanonicalThrows(x) THEN Thrown
    ELSE LET cands == DedupCandidates(x, minSize)
         IN IF Len(cands) = 0 THEN x
            ELSE Obj(0, <<Ent("$r", DedupRegistry(cands)), Ent("d", DedupTransform(x, cands))>>)

\* JSON.parse(JSON.stringify(x)): a fresh copy; undefined is null in an array, is
\* dropped from an object, and has no JSON text at all on its own.
RECURSIVE JsonClone(_)
JsonClone(x) ==
    CASE x.k = "undef" -> Thrown
      [] x.k = "arr" ->
           Arr(0, [i \in 1..Len(x.v) |-> IF x.v[i].k = "undef" THEN Null ELSE JsonClone(x.v[i])])
      [] x.k = "obj" ->
           LET kept == SelectSeq(x.v, LAMBDA e : e.val.k # "undef")
           IN Obj(0, [i \in 1..Len(kept) |-> Ent(kept[i].key, JsonClone(kept[i].val))])
      [] OTHER -> x

RECURSIVE DedupReconstruct(_, _)
DedupReconstruct(root, registry) ==
    CASE root.k = "arr" -> Arr(0, [i \in 1..Len(root.v) |-> DedupReconstruct(root.v[i], registry)])
      [] root.k = "obj" ->
           IF Truthy(Prop(root, "$ref")) /\ IsString(Prop(root, "$ref"))
           THEN JsonClone(IF Prop(root, "$ref").k = "str"
                          THEN Prop(registry, Prop(root, "$ref").v) ELSE Undef)
           ELSE Obj(0, [i \in 1..Len(root.v) |->
                          Ent(root.v[i].key, DedupReconstruct(root.v[i].val, registry))])
      [] OTHER -> root

DedupDecompress(pkg) ==
    IF ~Truthy(pkg) \/ ~Truthy(Prop(pkg, "$r")) \/ Prop(pkg, "d").k = "undef" THEN pkg
    ELSE LET r == DedupReconstruct(Prop(pkg, "d"), Prop(pkg, "$r"))
         IN IF HasThrown(r) THEN Thrown ELSE r

-----------------------------------------------------------------------------
(* The YAML pass *)

RECURSIVE HasUndef(_)
HasUndef(x) ==
    CASE x.k = "undef" -> TRUE
      [] x.k = "arr" -> \E i \in 1..Len(x.v) : HasUndef(x.v[i])
      [] x.k = "obj" -> \E i \in 1..Len(x.v) : HasUndef(x.v[i].val)
      [] OTHER -> FALSE

\* { $y: yaml.dump(data) }
YamlCompress(x) == Obj(0, <<Ent("$y", YamlText(Fresh(x)))>>)

\* yaml.load(pkg.$y): the value a dump stands for; a bare word loads as itself.
YamlDecompress(pkg) ==
    IF ~Truthy(pkg) \/ ~Truthy(Prop(pkg, "$y")) \/ ~IsString(Prop(pkg, "$y")) THEN pkg
    ELSE IF Prop(pkg, "$y").k = "ytext" THEN Prop(pkg, "$y").v ELSE Prop(pkg, "$y")

-----------------------------------------------------------------------------
(* restore *)

RECURSIVE hasSchemaMarker(_)
hasSchemaMarker(obj) ==
    CASE obj.k = "arr" -> \E i \in 1..Len(obj.v) : hasSchemaMarker(obj.v[i])
      [] obj.k = "obj" ->
           \/ HasKey(obj.v, "$s") /\ HasKey(obj.v, "$d")
           \/ \E i \in 1..Len(obj.v) : hasSchemaMarker(obj.v[i].val)
      [] OTHER -> FALSE

Restore(x, dict) ==
    IF Truthy(x) /\ Truthy(Prop(x, "m")) /\ Truthy(Prop(x, "d")) THEN UltraDecompress(x, dict)
    ELSE IF hasSchemaMarker(x) THEN SchemaDecompress(x)
    ELSE IF Truthy(x) /\ Truthy(Prop(x, "$r")) /\ Prop(x, "d").k # "undef" THEN DedupDecompress(x)
    ELSE IF Truthy(x) /\ Truthy(Prop(x, "$y")) /\ IsString(Prop(x, "$y")) THEN YamlDecompress(x)
    ELSE x

\* restore on any value.  None of its walks keeps a record of the nodes it has
\* entered: on a value that holds one of its own ancestors the {m, d} branch never
\* ends (the decompress walk is a loop) and the recursive hasSchemaMarker runs out
\* of stack.
RestoreOutcome(x, dict) ==
    IF HasBackEdge(x)
    THEN IF Truthy(Prop(x, "m")) /\ Truthy(Prop(x, "d")) THEN Diverges ELSE Thrown
    ELSE Restore(x, dict)

-----------------------------------------------------------------------------
(* refineData: the optional, lossy pre-processing step (numbers are integers here,
   which rounding leaves alone) *)

IsEmptyish(val) ==
    \/ val.k \in {"null", "undef"}
    \/ val = Str("")
    \/ IsComposite(val) /\ Len(val.v) = 0

\* What a frame writes at parent.dst[key]; undefined when it writes nothing.  With
\* pruneEmpty an array is replaced by `compact`, filtered while its slots still hold
\* their placeholders, and the frames of its elements fill the array it replaced.
RECURSIVE RefineBuild(_, _, _)
RefineBuild(src, pruneEmpty, pruneNull) ==
    CASE src.k \in {"null", "undef"} -> IF pruneNull THEN Undef ELSE src
      [] src.k = "arr" ->
           IF pruneEmpty
           THEN LET kept == SelectSeq(src.v, LAMBDA val : IsArr(val) /\ Len(val.v) > 0)
                IN Arr(0, [i \in 1..Len(kept) |-> Arr(0, [j \in 1..Len(kept[i].v) |-> Undef])])
           ELSE Arr(0, [i \in 1..Len(src.v) |-> RefineBuild(src.v[i], pruneEmpty, pruneNull)])
      [] src.k = "obj" ->
           LET rev == [i \in 1..Len(src.v) |-> src.v[Len(src.v) + 1 - i]]
               kept == SelectSeq(rev, LAMBDA e :
                          /\ ~(pruneNull /\ e.val.k \in {"null", "undef"})
                          /\ ~(pruneEmpty /\ e.val = Str(""))
                          /\ ~(pruneEmpty /\ IsComposite(e.val) /\ Len(e.val.v) = 0))
           IN Obj(0, [i \in 1..Len(kept) |->
                        Ent(kept[i].key, RefineBuild(kept[i].val, pruneEmpty, pruneNull))])
      [] OTHER -> src

\* cleanse: drops undefined and, with pruneEmpty, emptied composites from objects.
RECURSIVE RefineCleanse(_, _)
RefineCleanse(node, pruneEmpty) ==
    CASE node.k = "arr" -> Arr(0, [i \in 1..Len(node.v) |-> RefineCleanse(node.v[i], pruneEmpty)])
      [] node.k = "obj" ->
           LET cleansed == [i \in 1..Len(node.v) |->
                              Ent(node.v[i].key, RefineCleanse(node.v[i].val, pruneEmpty))]
           IN Obj(0, SelectSeq(cleansed, LAMBDA e :
                        /\ e.val.k # "undef"
                        /\ ~(pruneEmpty /\ IsComposite(e.val) /\ Len(e.val.v) = 0)))
      [] OTHER -> node

refineData(root, pruneEmpty, pruneNull) ==
    LET built == RefineBuild(root, pruneEmpty, pruneNull)
    IN RefineCleanse(IF root.k \in {"null", "undef"} /\ pruneNull THEN Obj(0, <<>>) ELSE built,
                     pruneEmpty)

-----------------------------------------------------------------------------
(* Analyzer.analyze *)

Max(a, b) == IF a >= b THEN a ELSE b

Min(a, b) == IF a <= b THEN a ELSE b

\* totalBytes: the size estimate from fixed per-type overheads.
RECURSIVE EstimateBytes(_)
EstimateBytes(x) ==
    CASE x.k = "arr" ->
           2 + (IF Len(x.v) > 1 THEN Len(x.v) - 1 ELSE 0)
             + SumSeq([i \in 1..Len(x.v) |-> EstimateBytes(x.v[i])])
      [] x.k = "obj" ->
           2 + (IF Len(x.v) > 1 THEN Len(x.v) - 1 ELSE 0)
             + SumSeq([i \in 1..Len(x.v) |-> Len(x.v[i].key) + 3 + EstimateBytes(x.v[i].val)])
      [] x.k = "str" -> Len(x.v) + 2
      [] x.k = "num" -> NumLen(x.v)
      [] x.k = "bool" -> IF x.v THEN 4 ELSE 5
      [] x.k = "null" -> 4
      [] x.k = "date" -> Len(x.v) + 2
      [] OTHER -> 0

\* calculateArraySchemaSavings: up to five leading elements are compared.
ArraySchemaSavings(arr) ==
    IF Len(arr.v) < 2 \/ ~IsObj(arr.v[1]) \/ Len(arr.v[1].v) = 0 THEN 0
    ELSE LET keys == Keys(arr.v[1].v)
             sampleSize == Min(Len(arr.v), 5)
             isConsistent ==
                 \A i \in 2..sampleSize :
                    /\ IsObj(arr.v[i])
                    /\ Len(arr.v[i].v) = Len(keys)
                    /\ \A j \in 1..Len(keys) : KeyIn(arr.v[i].v, keys[j])
             perItemOverhead == SumSeq([j \in 1..Len(keys) |-> Len(keys[j])]) + Len(keys) * 2
         IN IF isConsistent
            THEN Max(0, (Len(arr.v) - 1) * perItemOverhead - (perItemOverhead + 5))
            ELSE 0

RECURSIVE SchemaSavingsSum(_)
SchemaSavingsSum(x) ==
    CASE x.k = "arr" -> ArraySchemaSavings(x) + SumSeq([i \in 1..Len(x.v) |-> SchemaSavingsSum(x.v[i])])
      [] x.k = "obj" -> SumSeq([i \in 1..Len(x.v) |-> SchemaSavingsSum(x.v[i].val)])
      [] OTHER -> 0

RECURSIVE TotalKeysCount(_)
TotalKeysCount(x) ==
    CASE x.k = "arr" -> SumSeq([i \in 1..Len(x.v) |-> TotalKeysCount(x.v[i])])
      [] x.k = "obj" -> SumSeq([i \in 1..Len(x.v) |-> 1 + TotalKeysCount(x.v[i].val)])
      [] OTHER -> 0

RECURSIVE TotalKeyLength(_)
TotalKeyLength(x) ==
    CASE x.k = "arr" -> SumSeq([i \in 1..Len(x.v) |-> TotalKeyLength(x.v[i])])
      [] x.k = "obj" -> SumSeq([i \in 1..Len(x.v) |-> Len(x.v[i].key) + TotalKeyLength(x.v[i].val)])
      [] OTHER -> 0

\* The metrics optimize reads.  estimatedAbbrevSavings is kept in tenths:
\* 1.5 n - 0.2 n (avgKeyLen + 5) - 60 = (5 n - 2 totalKeyLength - 600) / 10.
\* An analysis that would not notice a cycle.
AnalyzeNeverThrows(x) == FALSE

\* The traversal's stack of frames (the top is the last element) and its ancestors
\* set: whether the walk throws "Circular reference detected".  Every object is
\* added to ancestors when it is entered; an array or a plain object pushes a frame
\* that takes it out again once its children are done, any other object pushes
\* nothing and stays in the set.  A node the library allocated is met once.
RECURSIVE AnalyzeWalk(_, _)
AnalyzeWalk(stack, ancestors) ==
    IF Len(stack) = 0 THEN FALSE
    ELSE LET frame == stack[Len(stack)]
             obj == frame.node
             rest == SubSeq(stack, 1, Len(stack) - 1)
             children == IF IsArr(obj) THEN obj.v ELSE [i \in 1..Len(obj.v) |-> obj.v[i].val]
             n == Len(children)
         IN IF obj.k = "cycle"
            THEN obj.v \in ancestors \/ AnalyzeWalk(rest, ancestors)
            ELSE IF obj.k \notin {"arr", "obj", "date"}
            THEN AnalyzeWalk(rest, ancestors)
            ELSE IF ~frame.entering
            THEN AnalyzeWalk(rest, ancestors \ {obj.id})
            ELSE IF obj.id > 0 /\ obj.id \in ancestors
            THEN TRUE
            ELSE IF obj.k = "date"
            THEN AnalyzeWalk(rest, ancestors \cup {obj.id})
            ELSE AnalyzeWalk(rest \o <<[node |-> obj, entering |-> FALSE]>>
                                  \o [i \in 1..n |-> [node |-> children[n + 1 - i], entering |-> TRUE]],
                             ancestors \cup {obj.id})

\* Analyzer.analyze(x) throws; a primitive is answered before any traversal.
AnalyzeThrows(x) ==
    /\ x.k \in {"arr", "obj", "date"}
    /\ AnalyzeWalk(<<[node |-> x, entering |-> TRUE]>>, {})

Analyze(x) ==
    IF x.k \notin {"arr", "obj", "date"}
    THEN [totalBytes |-> IF x.k = "undef" THEN 0 ELSE JsonLen(x),
          estimatedAbbrevSavings10 |-> 0, estimatedSchemaSavings |-> 0]
    ELSE [totalBytes |-> EstimateBytes(x),
          estimatedAbbrevSavings10 |-> Max(0, 5 * TotalKeysCount(x) - 2 * TotalKeyLength(x) - 600),
          estimatedSchemaSavings |-> Max(0, SchemaSavingsSum(x) - 20)]

\* The metrics object as a value.
MetricsValue(metrics) ==
    Obj(0, <<Ent("totalBytes", Num(metrics.totalBytes)),
             Ent("estimatedAbbrevSavings10", Num(metrics.estimatedAbbrevSavings10)),
             Ent("estimatedSchemaSavings", Num(metrics.estimatedSchemaSavings))>>)

-----------------------------------------------------------------------------
(* Optimizer.optimize *)

\* minify.compress: the value it is given.
minify(x) == x

\* The cost functions a caller may configure: the length of the text, a function
\* that is lower on a longer text, the number of digits of the text, and a function
\* that throws.
Tokenizers == {"length", "shorter", "digits", "throws"}

\* countTokens(val) for a function tokenizer: a string goes as it is, any other
\* value as its JSON text.
countTokens(val, tokenizer) ==
    LET textLen == IF val.k = "str" THEN Len(val.v) ELSE JsonLen(val)
    IN CASE tokenizer = "length" -> textLen
         [] tokenizer = "shorter" -> 0 - textLen
         [] OTHER -> DigitCount(val)

\* The acceptance test of applySpeculative.
Accepts(cur, candidate, validateTokenSavings, tokenizer) ==
    LET beforeBytes == JsonLen(cur)
        afterBytes == JsonLen(candidate)
    IN IF validateTokenSavings
       THEN \/ countTokens(candidate, tokenizer) < countTokens(cur, tokenizer)
            \/ afterBytes < beforeBytes
       ELSE afterBytes < beforeBytes

\* A threshold exit that would hand back the working value, refined or not.
ThresholdResultWorking(original, working) == minify(working)

\* What the threshold exit returns.
ThresholdResult(original, working) == minify(original)

\* A final validation that would also turn down an output of equal cost.
FinalFailsNotLower(original, working, validateTokenSavings, tokenizer) ==
    validateTokenSavings /\ countTokens(working, tokenizer) >= countTokens(original, tokenizer)

\* The test of the final validation: the output costs more than the input.
FinalFails(original, working, validateTokenSavings, tokenizer) ==
    validateTokenSavings /\ countTokens(working, tokenizer) > countTokens(original, tokenizer)

\* The value optimize returns at its end.
FinalResult(original, working, validateTokenSavings, tokenizer) ==
    IF FinalFails(original, working, validateTokenSavings, tokenizer) THEN original ELSE working

\* A call that would leave its override installed.
KeepDict(oldDict, dictNow, customDict) == dictNow

\* The finally block: DICT after the call.
RestoreDict(oldDict, dictNow, customDict) == IF customDict THEN oldDict ELSE dictNow

\* A pipeline without the fast-mode branch.
FirstPassAlwaysDedup(metrics, fastModeEnabled, fastSize) == "dedup"

\* Lines 94-106: the first pass of the pipeline.
FirstPass(metrics, fastModeEnabled, fastSize) ==
    IF ~fastModeEnabled \/ metrics.totalBytes >= fastSize THEN "dedup"
    ELSE IF \/ metrics.estimatedSchemaSavings > 50
            \/ 10 * metrics.estimatedSchemaSavings > metrics.estimatedAbbrevSavings10
         THEN "schema"
         ELSE "abbrev"

\* yaml.dump of the working value.  A value with undefined in it (a hole that
\* refineData left) is refused or written with null in its place.
YamlOutcomes(x) ==
    IF HasUndef(x) THEN {Thrown, Obj(0, <<Ent("$y", YamlText(JsonClone(x)))>>)}
    ELSE {YamlCompress(x)}

-----------------------------------------------------------------------------
(* The shared strategy instances *)

\* A fresh instance of each strategy: no call has been made.
NoLocals == [abbrev |-> <<>>, ultra |-> <<>>, dedup |-> <<>>]

\* The working tables of the instances once strategy `name` has compressed x.  Dedup
\* returns a primitive before it creates any table.
LeftAfter(name, x, dict) ==
    CASE name = "abbrev" -> [left EXCEPT !.abbrev = AbbrevLocals(x, dict)]
      [] name = "ultra" -> [left EXCEPT !.ultra = UltraLocals(x)]
      [] name = "dedup" -> IF IsComposite(x) THEN [left EXCEPT !.dedup = DedupLocals(x)] ELSE left
      [] OTHER -> left

\* strategy.compress(x) for the instance of the given name.
CompressBy(name, x, dict, options) ==
    CASE name = "abbrev" -> AbbrevCompress(x, dict)
      [] name = "schema" -> SchemaCompress(x)
      [] name = "dedup" -> DedupCompress(x, options.minSizeBytes)
      [] OTHER -> UltraCompress(x, options.unsafe)

-----------------------------------------------------------------------------
(* The values and options the calls are made with *)

\* Numbers are 0..MaxNum.
MaxNum == 1

\* The longest array of repeated rows.
MaxRows == 4

\* A thresholdBytes that some of the values are below and some are not.
SmallThreshold == 16

\* A fastSize that some of the values are below and some are not.
SmallFastSize == 40

\* A minSizeBytes between 0 and the default.
SmallMinSize == 8

\* optimize's default fastSize.
DefaultFastSize == 512

\* A string long enough for an array that holds it to pass the default minSizeBytes.
LongString == "xxxxxxxxxxxxxxxxxxxxxxxxxxxxxxxxxxxxxxxxxxxxxxxxxxxxxxxxxxxxxxxx"

Leaves ==
    {Null, Bool(TRUE), Bool(FALSE), Str(""), Str("s")} \cup {Num(n) : n \in 0..MaxNum}

\* The leaves of the deeper shapes.
SmallLeaves == {Bool(TRUE), Num(1)}

Obj1(key, x) == Obj(0, <<Ent(key, x)>>)

Obj2(k1, x, k2, y) == Obj(0, <<Ent(k1, x), Ent(k2, y)>>)

Arr1(x) == Arr(0, <<x>>)

Rep(x, n) == Arr(0, [i \in 1..n |-> x])

\* A leaf, an empty composite, or one leaf in an object or an array.
Flat(K, L) ==
    L \cup {Arr(0, <<>>), Obj(0, <<>>)}
      \cup {Obj1(key, x) : key \in K, x \in L} \cup {Arr1(x) : x \in L}

Cells(K, L) == {Obj1(key, x) : key \in K, x \in L} \cup {Arr1(x) : x \in L}

Pairs(K, L) ==
    {Obj2(k1, x, k2, y) : k1 \in K, k2 \in K, x \in L, y \in L} \ 
    {Obj2(k1, x, k1, y) : k1 \in K, x \in L, y \in L}

Nested(K, C) == {Obj1(key, c) : key \in K, c \in C} \cup {Arr1(c) : c \in C}

Rows(C, maxRows) == {Rep(c, n) : c \in C, n \in 2..maxRows}

Mixed(C) == {Arr(0, <<c, d>>) : c \in C, d \in C}

\* Values whose own keys are the ones the encodings use as markers.
MarkerInputs ==
    { Obj2("$s", Arr1(Str("a")), "$d", Arr1(Arr1(Num(1)))),
      Obj2("$s", Arr(0, <<>>), "$d", Arr(0, <<>>)),
      Obj1("r", Obj2("$s", Arr1(Str("a")), "$d", Arr1(Arr1(Num(1))))),
      Arr(0, <<Arr1(Num(1)), Arr1(Num(1)), Obj1("$ref", Str("r1"))>>),
      Arr(0, <<Arr1(Num(1)), Arr1(Num(1)), Obj1("$ref", Str("s"))>>),
      Obj1("$ref", Str("s")),
      Obj2("$r", Obj1("r1", Num(1)), "d", Obj1("$ref", Str("r1"))),
      Obj2("m", Obj1("title", Str("a")), "d", Obj1("a", Num(1))),
      Obj2("m", Num(1), "d", Obj1("title", Num(1))),
      Obj1("$y", Str("s")),
      Obj2("m", Obj(0, <<>>), "d", Rep(Obj1("title", Num(1)), 2)) }

\* Values that hold one of their own ancestors (the identities are those of Label):
\* a = {a: 1}; a.r = a, and cycles that pass through an array.
CyclicInputs ==
    { Obj2("a", Num(1), "r", BackEdge(1)),
      Obj1("r", Arr1(BackEdge(1))),
      Arr1(Obj1("r", BackEdge(1))),
      Obj1("a", Obj1("r", BackEdge(2))),
      Arr1(BackEdge(1)) }

\* Values that hold one node in two places, without any cycle.
SharedInputs ==
    { Obj(1, <<Ent("a", Obj(2, <<Ent("a", Num(1))>>)), Ent("r", Obj(2, <<Ent("a", Num(1))>>))>>),
      Obj(1, <<Ent("a", Arr(2, <<Bool(TRUE)>>)), Ent("r", Arr(2, <<Bool(TRUE)>>))>>) }

\* Values that hold Date objects: one Date in two places, directly or inside an
\* array that is itself held twice, two different Dates, a single Date.
DateInputs ==
    { Obj(1, <<Ent("a", DateLeaf(2)), Ent("r", DateLeaf(2))>>),
      Arr(1, <<DateLeaf(2), DateLeaf(2)>>),
      Obj(1, <<Ent("a", Arr(2, <<DateLeaf(3)>>)), Ent("r", Arr(2, <<DateLeaf(3)>>))>>),
      Obj(1, <<Ent("a", DateLeaf(2)), Ent("r", DateLeaf(3))>>),
      Obj(1, <<Ent("a", DateLeaf(2))>>),
      Arr(1, <<Arr(2, <<DateLeaf(3)>>), DateLeaf(4)>>),
      DateLeaf(1) }

\* Arrays of objects whose key sets differ by an extra key, by the order of the keys
\* or by a key every object inherits, equal objects written in two key orders, and
\* an object that owns an inherited key.
RaggedInputs ==
    { Arr(0, <<Obj1("a", Num(1)), Obj2("a", Num(1), "r", Num(1))>>),
      Arr(0, <<Obj2("a", Num(1), "r", Num(1)), Obj1("a", Num(1))>>),
      Arr(0, <<Obj2("a", Num(1), "r", Num(0)), Obj2("r", Num(1), "a", Num(0))>>),
      Arr(0, <<Obj1("constructor", Num(1)), Obj1("a", Num(1))>>),
      Arr(0, <<Obj1("a", Num(1)), Obj1("constructor", Num(1))>>),
      Arr(0, <<Obj(0, <<>>), Obj(0, <<>>)>>),
      Arr(0, <<Obj2("a", Num(1), "r", Num(1)), Obj2("r", Num(1), "a", Num(1))>>),
      Obj1("constructor", Num(1)) }

\* Values restore may be handed that no compress produced: half of a marker pair,
\* or a marker pair with contents of the wrong kind.
MalformedInputs ==
    { Obj1("m", Obj1("a", Str("s"))),
      Obj1("d", Obj1("a", Str("s"))),
      Obj1("$s", Arr1(Str("a"))),
      Obj1("$r", Obj1("r1", Num(1))),
      Obj2("$s", Str("s"), "$d", Str("s")),
      Obj2("$s", Arr1(Str("a")), "$d", Arr1(Num(1))),
      Obj2("$s", Arr1(Str("a")), "$d", Arr1(Null)),
      Obj2("$r", Obj1("r1", Num(1)), "d", Obj1("$ref", Str("s"))),
      Obj2("$r", Obj1("r1", Num(1)), "d", Num(1)),
      Obj1("$y", Num(1)) }

\* Values with fields and elements refineData may prune: the value of the test
\* "prunes empty values when enabled", composites that hold nothing but prunable
\* values, and arrays that hold values to keep.
PrunableInputs ==
    { Obj(0, <<Ent("a", Null), Ent("b", Str("")), Ent("c", Arr(0, <<>>)), Ent("d", Obj(0, <<>>)),
               Ent("e", Num(0)), Ent("f", Str("ok"))>>),
      Obj1("a", Obj1("r", Null)),
      Obj1("a", Obj2("r", Str(""), "a", Bool(FALSE))),
      Obj1("a", Arr1(Null)),
      Obj1("a", Arr(0, <<Num(0), Str(""), Bool(FALSE)>>)),
      Arr(0, <<Null, Num(1), Obj(0, <<>>), Str("s")>>),
      Arr1(Arr1(Num(1))) }

\* The arguments of a call made between two calls with one argument: keys and
\* subtrees the other values share, and a key none of them has.
OtherInputs ==
    { Obj1("extra", Obj1("title", Num(1))),
      Rep(Arr1(Str(LongString)), 2),
      Arr(0, <<Obj1("a", Num(1)), Arr1(Bool(TRUE))>>) }

\* No later call has been made.
NoAgain == [between |-> Undef, betweenResult |-> Undef, result |-> Undef]

\* Equal rows that each hold a repeated object long enough for the default
\* minSizeBytes.
NestedRepeats == {Rep(Obj1("r", Obj1("a", Str(LongString))), 3)}

StrategyKeys == {"a", "r", "description", "title"}

StrategyInputs ==
    LET C == Cells(StrategyKeys, SmallLeaves)
        P == Pairs(StrategyKeys, SmallLeaves)
    IN Flat(StrategyKeys, Leaves) \cup P \cup Nested(StrategyKeys, C \cup P)
         \cup Nested(StrategyKeys, Nested(StrategyKeys, C))
         \cup Rows(C \cup P \cup Nested(StrategyKeys, C), MaxRows - 1) \cup Mixed(C)
         \cup Rows({Arr1(Str(LongString))}, MaxRows - 1) \cup MarkerInputs
         \cup CyclicInputs \cup RaggedInputs \cup MalformedInputs

OptimizeKeys == {"a", "r", "description"}

OptimizeInputs ==
    LET C == Cells(OptimizeKeys, SmallLeaves)
        P == Pairs(OptimizeKeys, {Num(1)})
    IN Flat(OptimizeKeys, Leaves) \cup P \cup Nested(OptimizeKeys, C \cup P)
         \cup Rows(C, MaxRows) \cup Rows({Arr1(Str(LongString))}, 2) \cup MarkerInputs
         \cup CyclicInputs \cup NestedRepeats \cup PrunableInputs

\* dataRefinement: absent, or enabled with its two pruning switches.
RefineChoices ==
    {[enabled |-> FALSE, pruneEmpty |-> TRUE, pruneNull |-> TRUE]}
      \cup [enabled : {TRUE}, pruneEmpty : BOOLEAN, pruneNull : BOOLEAN]

Thresholds == {0, SmallThreshold}

FastSizes == {SmallFastSize, DefaultFastSize}

MinSizes == {0, SmallMinSize, DefaultMinSizeBytes}

\* The options of a call, as far as the call has read them.
NoOpts ==
    [customDict |-> FALSE, oldDict |-> "default", dataRefinement |-> FALSE,
     pruneEmpty |-> TRUE, pruneNull |-> TRUE,
     belowThreshold |-> FALSE, validateTokenSavings |-> FALSE, tokenizer |-> "unread",
     aggressive |-> FALSE, unsafe |-> FALSE, yamlEnabled |-> FALSE,
     minSizeBytes |-> DefaultMinSizeBytes, fastMode |-> TRUE, fastSize |-> DefaultFastSize]

-----------------------------------------------------------------------------
(* The state machine *)

InitWith(values) ==
    /\ data \in values
    /\ input0 = data
    /\ pc = "idle"
    /\ op = "none"
    /\ exit = "none"
    /\ result = Undef
    /\ restored = Undef
    /\ current = Undef
    /\ opts = NoOpts
    /\ attempted = <<>>
    /\ accepted = <<>>
    /\ log = <<>>
    /\ left = NoLocals
    /\ again = NoAgain

Init == InitWith({Label(v, 1) : v \in OptimizeInputs} \cup SharedInputs) /\ DICT = "default"

StrategyInit ==
    InitWith({Label(v, 1) : v \in StrategyInputs} \cup SharedInputs) /\ DICT \in {"default", "custom"}

\* optimize up to the threshold test: the analysis, the DICT override, refineData,
\* the early return.  The analysis runs before the try block: when it throws, the
\* call ends there and nothing else of it has run.  The nodes refineData builds are
\* numbered after the caller's.
OptimizeStart ==
    /\ pc = "idle"
    /\ \E customDict \in BOOLEAN, dataRefinement \in RefineChoices, thresholdBytes \in Thresholds :
          LET metrics == Analyze(data)
              dictNow == IF customDict THEN "custom" ELSE DICT
              working == IF dataRefinement.enabled
                         THEN Label(refineData(data, dataRefinement.pruneEmpty, dataRefinement.pruneNull),
                                    NodeCount(data) + 1)
                         ELSE data
              below == metrics.totalBytes < thresholdBytes
          IN /\ op' = "optimize"
             /\ IF AnalyzeThrows(data)
                THEN /\ result' = Thrown
                     /\ exit' = "exception"
                     /\ pc' = "returned"
                     /\ UNCHANGED <<DICT, opts, current>>
                ELSE /\ opts' = [opts EXCEPT !.customDict = customDict, !.oldDict = DICT,
                                             !.dataRefinement = dataRefinement.enabled,
                                             !.pruneEmpty = dataRefinement.pruneEmpty,
                                             !.pruneNull = dataRefinement.pruneNull,
                                             !.belowThreshold = below]
                     /\ current' = working
                     /\ IF below
                        THEN /\ result' = ThresholdResult(data, working)
                             /\ exit' = "threshold"
                             /\ pc' = "returned"
                             /\ DICT' = RestoreDict(DICT, dictNow, customDict)
                        ELSE /\ pc' = "route"
                             /\ DICT' = dictNow
                             /\ UNCHANGED <<result, exit>>
    /\ UNCHANGED <<data, input0, restored, attempted, accepted, log, left, again>>

\* The choice of the first pass; the validation options are read from here on.
Route ==
    /\ pc = "route"
    /\ \E fastMode \in BOOLEAN, fastSize \in FastSizes,
          validateTokenSavings \in BOOLEAN, tokenizer \in Tokenizers :
          /\ pc' = FirstPass(Analyze(data), fastMode, fastSize)
          /\ opts' = [opts EXCEPT !.validateTokenSavings = validateTokenSavings,
                                  !.tokenizer = IF validateTokenSavings THEN tokenizer
                                                ELSE "unread",
                                  !.fastMode = fastMode, !.fastSize = fastSize]
    /\ UNCHANGED <<data, input0, DICT, op, exit, result, restored, current, attempted, accepted, log, left, again>>

\* The call leaves by an exception: the finally block still runs.
Throws ==
    /\ result' = Thrown
    /\ exit' = "exception"
    /\ pc' = "returned"
    /\ DICT' = RestoreDict(opts.oldDict, DICT, opts.customDict)

\* applySpeculative(strategy): candidate is what strategy.compress(current) gave,
\* workingAfter what current is once compress has run.  The log keeps, for each
\* pass, the working value it was given, the candidate, the working value as
\* compress left it and whether the candidate took its place.  A compress that throws skips
\* the pass; a cost function that throws leaves the call unless the caller of
\* applySpeculative catches it.
applySpeculative(name, candidate, workingAfter, next, caught) ==
    /\ attempted' = Append(attempted, name)
    /\ left' = LeftAfter(name, current, DictEntries(DICT))
    /\ log' = Append(log, [name |-> name, before |-> current, candidate |-> candidate,
                           after |-> workingAfter,
                           took |-> /\ candidate # Thrown
                                    /\ ~(opts.validateTokenSavings /\ opts.tokenizer = "throws")
                                    /\ Accepts(workingAfter, candidate, opts.validateTokenSavings,
                                               opts.tokenizer)])
    /\ IF candidate = Thrown
       THEN /\ current' = workingAfter
            /\ pc' = next
            /\ UNCHANGED <<accepted, result, exit, DICT>>
       ELSE IF opts.validateTokenSavings /\ opts.tokenizer = "throws"
       THEN /\ current' = workingAfter
            /\ UNCHANGED accepted
            /\ IF caught THEN pc' = next /\ UNCHANGED <<result, exit, DICT>> ELSE Throws
       ELSE IF Accepts(workingAfter, candidate, opts.validateTokenSavings, opts.tokenizer)
       THEN /\ current' = candidate
            /\ accepted' = Append(accepted, name)
            /\ pc' = next
            /\ UNCHANGED <<result, exit, DICT>>
       ELSE /\ current' = workingAfter
            /\ pc' = next
            /\ UNCHANGED <<accepted, result, exit, DICT>>

DedupPass ==
    /\ pc = "dedup"
    /\ applySpeculative("dedup", DedupCompress(current, DefaultMinSizeBytes), current, "schema", FALSE)
    /\ UNCHANGED <<data, input0, op, restored, opts, again>>

SchemaPass ==
    /\ pc = "schema"
    /\ applySpeculative("schema", SchemaCompress(current), current, "abbrev", FALSE)
    /\ UNCHANGED <<data, input0, op, restored, opts, again>>

AbbrevPass ==
    /\ pc = "abbrev"
    /\ applySpeculative("abbrev", AbbrevCompress(current, DictEntries(DICT)), current, "ultra", FALSE)
    /\ UNCHANGED <<data, input0, op, restored, opts, again>>

\* The UltraCompact pass, attempted when aggressive is set.  The unsafe post-pass
\* writes to the arrays the candidate shares with the working value and with the
\* caller's value.
UltraPass ==
    /\ pc = "ultra"
    /\ \E aggressive \in BOOLEAN, unsafe \in BOOLEAN :
          /\ aggressive \/ ~unsafe
          /\ opts' = [opts EXCEPT !.aggressive = aggressive, !.unsafe = unsafe]
          /\ IF aggressive
             THEN /\ applySpeculative("ultra", UltraCompress(current, unsafe),
                                      UltraArgAfter(current, unsafe), "yaml", FALSE)
                  /\ data' = SweepNodes(data, UltraSweptIds(current, unsafe))
             ELSE /\ pc' = "yaml"
                  /\ UNCHANGED <<data, current, attempted, accepted, log, result, exit, DICT, left>>
    /\ UNCHANGED <<input0, op, restored, again>>

YamlPass ==
    /\ pc = "yaml"
    /\ \E yamlEnabled \in BOOLEAN :
          /\ opts' = [opts EXCEPT !.yamlEnabled = yamlEnabled]
          /\ IF yamlEnabled
             THEN \E candidate \in YamlOutcomes(current) :
                     applySpeculative("yaml", candidate, current, "final", TRUE)
             ELSE /\ pc' = "final"
                  /\ UNCHANGED <<current, attempted, accepted, log, result, exit, DICT, left>>
    /\ UNCHANGED <<data, input0, op, restored, again>>

\* The final validation and the return.
FinalValidation ==
    /\ pc = "final"
    /\ IF opts.validateTokenSavings /\ opts.tokenizer = "throws"
       THEN Throws
       ELSE /\ result' = FinalResult(data, current, opts.validateTokenSavings, opts.tokenizer)
            /\ exit' = IF FinalFails(data, current, opts.validateTokenSavings, opts.tokenizer)
                       THEN "validation" ELSE "normal"
            /\ pc' = "returned"
            /\ DICT' = RestoreDict(opts.oldDict, DICT, opts.customDict)
    /\ UNCHANGED <<data, input0, op, restored, current, opts, attempted, accepted, log, left, again>>

\* restore(result), under the dictionary that is installed when it is called; there
\* is a result only when the call before it returned.
RestoreCall ==
    /\ pc \in {"returned", "compressed"}
    /\ result.k \notin {"error", "loop"}
    /\ restored' = RestoreOutcome(result, DictEntries(DICT))
    /\ pc' = "restored"
    /\ UNCHANGED <<data, input0, DICT, op, exit, result, current, opts, attempted, accepted, log, left, again>>

Next ==
    \/ OptimizeStart
    \/ Route
    \/ DedupPass
    \/ SchemaPass
    \/ AbbrevPass
    \/ UltraPass
    \/ YamlPass
    \/ FinalValidation
    \/ RestoreCall

Spec == Init /\ [][Next]_vars

\* A direct call of one strategy's compress.
CompressAbbrev ==
    /\ pc = "idle"
    /\ op' = "abbrev"
    /\ result' = AbbrevCompress(data, DictEntries(DICT))
    /\ left' = LeftAfter("abbrev", data, DictEntries(DICT))
    /\ pc' = "compressed"
    /\ UNCHANGED <<data, input0, DICT, exit, restored, current, opts, attempted, accepted, log, again>>

CompressSchema ==
    /\ pc = "idle"
    /\ op' = "schema"
    /\ result' = SchemaCompress(data)
    /\ pc' = "compressed"
    /\ UNCHANGED <<data, input0, DICT, exit, restored, current, opts, attempted, accepted, log, left, again>>

CompressDedup ==
    /\ pc = "idle"
    /\ \E minSizeBytes \in MinSizes :
          /\ opts' = [opts EXCEPT !.minSizeBytes = minSizeBytes]
          /\ result' = DedupCompress(data, minSizeBytes)
    /\ left' = LeftAfter("dedup", data, DictEntries(DICT))
    /\ op' = "dedup"
    /\ pc' = "compressed"
    /\ UNCHANGED <<data, input0, DICT, exit, restored, current, attempted, accepted, log, again>>

CompressUltra ==
    /\ pc = "idle"
    /\ \E unsafe \in BOOLEAN :
          /\ opts' = [opts EXCEPT !.unsafe = unsafe]
          /\ result' = UltraCompress(data, unsafe)
          /\ data' = SweepNodes(data, UltraSweptIds(data, unsafe))
    /\ left' = LeftAfter("ultra", data, DictEntries(DICT))
    /\ op' = "ultra"
    /\ pc' = "compressed"
    /\ UNCHANGED <<input0, DICT, exit, restored, current, attempted, accepted, log, again>>

\* The decompress of the strategy that compressed.
Decompress ==
    /\ pc = "compressed"
    /\ result.k \notin {"error", "loop"}
    /\ restored' = IF HasBackEdge(result) /\ op \in {"abbrev", "ultra"} THEN Diverges
                   ELSE CASE op = "abbrev" -> AbbrevDecompress(result, DictEntries(DICT))
                          [] op = "schema" -> SchemaDecompress(result)
                          [] op = "dedup" -> DedupDecompress(result)
                          [] OTHER -> UltraDecompress(result, DictEntries(DICT))
    /\ pc' = "decompressed"
    /\ UNCHANGED <<data, input0, DICT, op, exit, result, current, opts, attempted, accepted, log, left, again>>

\* A call of the same instance on another value, made after the first call has
\* returned or thrown.
CompressOther ==
    /\ pc = "compressed"
    /\ result.k # "loop"
    /\ \E b \in OtherInputs :
          LET arg == Label(b, NodeCount(input0) + 1)
          IN /\ again' = [again EXCEPT !.between = arg,
                                       !.betweenResult = CompressBy(op, arg, DictEntries(DICT), opts)]
             /\ left' = LeftAfter(op, arg, DictEntries(DICT))
    /\ pc' = "between"
    /\ UNCHANGED <<data, input0, DICT, op, exit, result, restored, current, opts, attempted, accepted, log>>

\* A further call of the same instance on the value the first call was made on.
CompressAgain ==
    /\ pc = "between"
    /\ again.betweenResult.k # "loop"
    /\ again' = [again EXCEPT !.result = CompressBy(op, data, DictEntries(DICT), opts)]
    /\ data' = IF op = "ultra" THEN SweepNodes(data, UltraSweptIds(data, opts.unsafe)) ELSE data
    /\ left' = LeftAfter(op, data, DictEntries(DICT))
    /\ pc' = "again"
    /\ UNCHANGED <<input0, DICT, op, exit, result, restored, current, opts, attempted, accepted, log>>

\* restore called on a value as the caller holds it.
RestoreDirect ==
    /\ pc = "idle"
    /\ op' = "restore"
    /\ restored' = RestoreOutcome(data, DictEntries(DICT))
    /\ pc' = "restored"
    /\ UNCHANGED <<data, input0, DICT, exit, result, current, opts, attempted, accepted, log, left, again>>

StrategyNext ==
    \/ CompressAbbrev
    \/ CompressSchema
    \/ CompressDedup
    \/ CompressUltra
    \/ Decompress
    \/ RestoreCall
    \/ RestoreDirect
    \/ CompressOther
    \/ CompressAgain

StrategySpec == StrategyInit /\ [][StrategyNext]_vars

\* A direct call of Analyzer.analyze.
AnalyzerInit ==
    InitWith({Label(v, 1) : v \in StrategyInputs} \cup SharedInputs \cup DateInputs) /\ DICT = "default"

AnalyzeCall ==
    /\ pc = "idle"
    /\ op' = "analyze"
    /\ IF AnalyzeThrows(data)
       THEN result' = Thrown /\ exit' = "exception"
       ELSE result' = MetricsValue(Analyze(data)) /\ exit' = "normal"
    /\ pc' = "analyzed"
    /\ UNCHANGED <<data, input0, DICT, restored, current, opts, attempted, accepted, log, left, again>>

AnalyzerNext == AnalyzeCall

AnalyzerSpec == AnalyzerInit /\ [][AnalyzerNext]_vars

-----------------------------------------------------------------------------
(* The claims *)

\* C1: with neither unsafe nor dataRefinement, restore(optimize(v, options)) is
\* deep-equal to v, whichever passes were accepted.
C1_RestoreOptimizeRoundTrip ==
    (op = "optimize" /\ pc = "restored" /\ ~opts.unsafe /\ ~opts.dataRefinement)
        => DeepEq(restored, input0)

\* C2: with validateTokenSavings on, the cost of optimize(v) is never greater than
\* the cost of v as it was passed, under the configured cost function.
C2_CostNeverGreater ==
    (op = "optimize" /\ pc \in {"returned", "restored"} /\ exit \in {"normal", "validation"} /\ opts.validateTokenSavings)
        => countTokens(result, opts.tokenizer) <= countTokens(input0, opts.tokenizer)

\* C3 as stated: with validateTokenSavings on, a final working value whose cost is
\* not strictly lower than the input's (equal included) makes optimize return the
\* original input.
C3_NotLowerReturnsOriginal ==
    (op = "optimize" /\ pc \in {"returned", "restored"} /\ exit \in {"normal", "validation"} /\ opts.validateTokenSavings
       /\ ~(countTokens(current, opts.tokenizer) < countTokens(data, opts.tokenizer)))
        => result = data

\* C3 amended: with validateTokenSavings on, optimize returns the original input
\* exactly when the final working value costs strictly more than the input; at an
\* equal or lower cost it returns the working value.
C3_GreaterReturnsOriginal ==
    (op = "optimize" /\ pc \in {"returned", "restored"} /\ exit \in {"normal", "validation"} /\ opts.validateTokenSavings)
        => IF countTokens(current, opts.tokenizer) > countTokens(data, opts.tokenizer)
           THEN result = data /\ exit = "validation"
           ELSE result = current /\ exit = "normal"

\* C3 at work: the validation has handed back the input in place of a different
\* working value that costs more.
C3_WitnessRejected ==
    /\ op = "optimize" /\ pc \in {"returned", "restored"} /\ exit = "validation" /\ opts.validateTokenSavings
    /\ countTokens(current, opts.tokenizer) > countTokens(data, opts.tokenizer)
    /\ ~DeepEq(current, data)
    /\ result = data

\* C4: a value whose size estimate is below thresholdBytes is returned itself,
\* unchanged, whatever the other options are, and no pass is attempted on it.
C4_BelowThresholdPassthrough ==
    (op = "optimize" /\ opts.belowThreshold)
        => /\ pc \in {"returned", "restored"}
           /\ exit = "threshold"
           /\ result = input0
           /\ data = input0
           /\ attempted = <<>>
           /\ accepted = <<>>

\* C4 at work: a composite value left by the threshold exit in a call that had a
\* customDict and a dataRefinement that changed the working value.
C4_Witness ==
    /\ op = "optimize" /\ pc = "returned" /\ exit = "threshold"
    /\ opts.belowThreshold /\ opts.customDict /\ opts.dataRefinement
    /\ IsComposite(input0)
    /\ ~DeepEq(current, input0)
    /\ result = input0

\* C5: AbbreviatedKeys decompress(compress(v)) is deep-equal to v, under one and the
\* same static dictionary.
C5_AbbrevRoundTrip ==
    (op = "abbrev" /\ pc = "decompressed") => DeepEq(restored, input0)

\* C6: SchemaDataSeparation decompress(compress(v)) is deep-equal to v, and
\* restore(compress(v)) gives the same when a schema record lies below the root.
C6_SchemaRoundTrip ==
    /\ (op = "schema" /\ pc = "decompressed") => DeepEq(restored, input0)
    /\ (op = "schema" /\ pc = "restored" /\ hasSchemaMarker(result) /\ ~IsSchemaRecord(result))
          => DeepEq(restored, SchemaDecompress(result))

\* C7: StructuralDeduplication decompress(compress(v)) is deep-equal to v for every
\* minSizeBytes >= 0.
C7_DedupRoundTrip ==
    (op = "dedup" /\ pc = "decompressed") => DeepEq(restored, input0)

\* C8: UltraCompact decompress(compress(v)) is deep-equal to v in safe mode, and in
\* unsafe mode to v with every Boolean replaced by 1/0 and nothing else changed.
C8_UltraRoundTrip ==
    (op = "ultra" /\ pc = "decompressed")
        => IF opts.unsafe
           THEN DeepEq(restored, BoolSweep(BoolToNum(input0, TRUE)))
           ELSE DeepEq(restored, input0)

\* C9: no strategy's compress mutates its argument: after the call v is what it
\* was before the call.
C9_CompressDoesNotMutate ==
    (op \in {"abbrev", "schema", "dedup", "ultra"} /\ pc = "compressed") => data = input0

\* C10: after an optimize call that supplied customDict, DICT is the dictionary it
\* was before the call, on every exit path.
C10_DictRestored ==
    (op = "optimize" /\ opts.customDict /\ pc \in {"returned", "restored"})
        => DICT = opts.oldDict

\* C10 at work: the call installed the override, ran passes under it, and left by
\* an exception of the cost function.
C10_Witness ==
    /\ op = "optimize" /\ pc = "returned" /\ exit = "exception"
    /\ opts.customDict
    /\ IsComposite(input0)
    /\ attempted # <<>>
    /\ DICT = "default"

\* C11: on a value that holds one of its own ancestors optimize throws to the
\* caller, whatever the options: it returns no value, attempts no pass and does not
\* loop.
C11_CyclicInputThrows ==
    (op = "optimize" /\ HasBackEdge(input0))
        => /\ pc = "returned"
           /\ exit = "exception"
           /\ result = Thrown
           /\ attempted = <<>>
           /\ restored = Undef

\* C11 at work: optimize has thrown on an object whose cycle passes through an array.
C11_Witness ==
    /\ op = "optimize" /\ pc = "returned" /\ exit = "exception"
    /\ result = Thrown
    /\ IsObj(input0) /\ HasBackEdge(input0)
    /\ \E i \in 1..Len(input0.v) : IsArr(input0.v[i].val) /\ HasBackEdge(input0.v[i].val)

\* C12: every entry point that traverses a value raises the circular-reference error
\* on a cyclic value and terminates: Analyzer.analyze, canonicalStringify and the
\* compress of each of the four strategies.
C12_CyclicRaisesEverywhere ==
    HasBackEdge(input0)
        => /\ AnalyzeThrows(input0)
           /\ CanonicalThrows(input0)
           /\ (op \in {"abbrev", "schema", "dedup", "ultra"} /\ pc = "compressed") => result = Thrown

\* C13: Schema compress turns an array into {$s, $d} exactly when the array is not
\* empty and all its elements are objects with the same own key set; $s is the key
\* order of the first element and $d[i][j] encodes element i's value for $s[j]; every
\* other array is copied as a plain array.
C13_SchemaExactlyUniform ==
    (op = "schema" /\ pc = "compressed" /\ ~HasBackEdge(input0))
        => LET SameKeys(a, b) ==
                   /\ Len(a.v) = Len(b.v)
                   /\ \A j \in 1..Len(a.v) : HasKey(b.v, a.v[j].key)
               Uniform(x) ==
                   /\ Len(x.v) > 0
                   /\ \A i \in 1..Len(x.v) : IsObj(x.v[i]) /\ SameKeys(x.v[1], x.v[i])
               RECURSIVE Enc(_)
               Enc(x) ==
                   CASE x.k = "arr" ->
                          IF Uniform(x)
                          THEN LET fields == Keys(x.v[1].v)
                               IN Obj(0, <<Ent("$s", Arr(0, [j \in 1..Len(fields) |-> Str(fields[j])])),
                                           Ent("$d", Arr(0, [i \in 1..Len(x.v) |->
                                                  Arr(0, [j \in 1..Len(fields) |->
                                                         Enc(GetKey(x.v[i].v, fields[j]))])]))>>)
                          ELSE Arr(0, [i \in 1..Len(x.v) |-> Enc(x.v[i])])
                     [] x.k = "obj" -> Obj(0, [i \in 1..Len(x.v) |-> Ent(x.v[i].key, Enc(x.v[i].val))])
                     [] OTHER -> x
           IN DeepEq(result, Enc(input0))

\* C14: restore never raises on a malformed or unrecognized input, and returns the
\* input unchanged when its shape is not that of an envelope.
C14_RestoreNeverRaises ==
    (op = "restore" /\ pc = "restored" /\ ~HasBackEdge(input0))
        => /\ restored.k # "error"
           /\ (/\ ~(Truthy(Prop(input0, "m")) /\ Truthy(Prop(input0, "d")))
               /\ ~hasSchemaMarker(input0)
               /\ ~(Truthy(Prop(input0, "$r")) /\ Prop(input0, "d").k # "undef")
               /\ ~(Truthy(Prop(input0, "$y")) /\ IsString(Prop(input0, "$y"))))
                  => DeepEq(restored, input0)

\* C15: for AbbreviatedKeys, safe UltraCompact, SchemaDataSeparation and
\* StructuralDeduplication, restore(compress(v)) is deep-equal to v, primitive roots
\* included.
C15_RestoreAfterCompress ==
    (/\ pc = "restored"
     /\ op \in {"abbrev", "schema", "dedup", "ultra"}
     /\ ~(op = "ultra" /\ opts.unsafe)
     /\ ~HasBackEdge(input0))
        => DeepEq(restored, input0)

\* C16: an envelope built by compress shares no array and no object with the
\* caller's value.
C16_EnvelopeSharesNoNode ==
    (/\ pc = "compressed"
     /\ op \in {"abbrev", "schema", "dedup", "ultra"}
     /\ IsComposite(result) /\ result.id = 0)
        => NodeIds(result) \cap NodeIds(input0) = {}

\* C17: in each pass the candidate replaces the working value exactly when it is
\* strictly smaller in token cost or in byte length (validation on), or in byte
\* length (validation off); otherwise the working value after the pass has the
\* content it had before the pass.
C17_AcceptIffStrictlySmaller ==
    (op = "optimize" /\ opts.tokenizer # "throws")
        => \A i \in 1..Len(log) :
              /\ log[i].took <=> /\ log[i].candidate.k # "error"
                                  /\ Accepts(log[i].before, log[i].candidate,
                                             opts.validateTokenSavings, opts.tokenizer)
              /\ ~log[i].took => DeepEq(log[i].after, log[i].before)

\* C18: the passes are attempted at most once each and in the order Dedup, Schema,
\* Abbreviation, UltraCompact, YAML; a call that runs to its end has attempted
\* Abbreviation, UltraCompact exactly when aggressive is set and YAML exactly when
\* yamlEnabled is set; each pass is given the working value the last accepted pass
\* left.
C18_PipelineOrder ==
    op = "optimize"
        => LET Rank(name) == CASE name = "dedup" -> 1 [] name = "schema" -> 2
                               [] name = "abbrev" -> 3 [] name = "ultra" -> 4 [] OTHER -> 5
               Tried(name) == \E i \in 1..Len(attempted) : attempted[i] = name
           IN /\ \A i \in 1..Len(attempted) : \A j \in 1..Len(attempted) :
                    i < j => Rank(attempted[i]) < Rank(attempted[j])
              /\ (pc \in {"returned", "restored"} /\ exit \in {"normal", "validation"})
                    => /\ Tried("abbrev")
                       /\ Tried("ultra") <=> opts.aggressive
                       /\ Tried("yaml") <=> opts.yamlEnabled
              /\ \A i \in 2..Len(log) :
                    DeepEq(log[i].before,
                           IF log[i - 1].took THEN log[i - 1].candidate ELSE log[i - 1].before)

\* C19: with fastMode on and a size estimate below fastSize, Dedup is never
\* attempted and Schema is attempted exactly when estimatedSchemaSavings is above 50
\* or above estimatedAbbrevSavings; otherwise Dedup and Schema have both been
\* attempted by the time the Abbreviation pass starts.
C19_FastModeRouting ==
    (op = "optimize" /\ pc \notin {"idle", "route"} /\ ~opts.belowThreshold /\ ~HasBackEdge(input0))
        => LET metrics == Analyze(input0)
               fast == opts.fastMode /\ metrics.totalBytes < opts.fastSize
               wanted == \/ metrics.estimatedSchemaSavings > 50
                         \/ 10 * metrics.estimatedSchemaSavings > metrics.estimatedAbbrevSavings10
               Tried(name) == \E i \in 1..Len(attempted) : attempted[i] = name
               pastSchema == pc \in {"abbrev", "ultra", "yaml", "final"} \/ Tried("abbrev")
           IN IF fast
              THEN /\ ~Tried("dedup") /\ pc # "dedup"
                   /\ Tried("schema") => wanted
                   /\ (pastSchema /\ wanted) => Tried("schema")
              ELSE pastSchema => (Tried("dedup") /\ Tried("schema"))

\* C19 at work: a call in fast mode on a value below fastSize has returned after
\* attempting Schema and Abbreviation, and not Dedup.
C19_Witness ==
    /\ op = "optimize" /\ pc = "returned" /\ exit = "normal"
    /\ opts.fastMode /\ Analyze(input0).totalBytes < opts.fastSize
    /\ attempted = <<"schema", "abbrev">>
    /\ accepted = <<"schema">>

\* C20: a circular-reference error raised during the estimation or during a
\* strategy's traversal inside optimize ends the call: optimize throws and returns
\* no value.
C20_CircularErrorIsFatal ==
    (op = "optimize" /\ pc \in {"returned", "restored"})
        => /\ AnalyzeThrows(input0) => (result = Thrown /\ exit = "exception")
           /\ (\E i \in 1..Len(log) : log[i].name # "yaml" /\ log[i].candidate.k = "error")
                 => (result = Thrown /\ exit = "exception")

\* C21: within one AbbreviatedKeys compress call two different original keys are
\* never written under the same key of the body, whichever way each is rewritten
\* (static dictionary, dynamic token, unchanged).
C21_KeyRewritingInjective ==
    (op = "abbrev" /\ pc = "compressed" /\ result.k = "obj" /\ IsComposite(input0))
        => LET dict == DictEntries(DICT)
               keyMap == AbbrevKeyOrder(<<input0>>, <<>>, dict, input0)
               walked == WalkedNodes(<<input0>>, <<>>)
               keys == UNION {{walked[i].v[j].key : j \in 1..Len(walked[i].v)} :
                                i \in {n \in 1..Len(walked) : IsObj(walked[n])}}
           IN \A k1 \in keys : \A k2 \in keys :
                 k1 # k2 => AbbrevTargetKey(k1, keyMap, dict, input0)
                              # AbbrevTargetKey(k2, keyMap, dict, input0)

\* C22: Dedup compress gives a canonical form a registry entry exactly when the form
\* occurs more than once among the composite subtrees of the input (whatever the
\* order of the keys) and its serialization is at least minSizeBytes long; when no
\* form qualifies the input itself is returned, without a registry.
C22_RegistryIffRepeatedAndLarge ==
    (op = "dedup" /\ pc = "compressed" /\ IsComposite(input0) /\ ~HasBackEdge(input0))
        => LET RECURSIVE Subtrees(_)
               Subtrees(x) ==
                   CASE x.k = "arr" ->
                          {x} \cup UNION {Subtrees(x.v[i]) : i \in 1..Len(x.v)}
                     [] x.k = "obj" ->
                          {x} \cup UNION {Subtrees(x.v[i].val) : i \in 1..Len(x.v)}
                     [] OTHER -> {}
               RECURSIVE Occurrences(_, _)
               Occurrences(x, s) ==
                   CASE x.k = "arr" ->
                          (IF DeepEq(x, s) THEN 1 ELSE 0)
                            + SumSeq([i \in 1..Len(x.v) |-> Occurrences(x.v[i], s)])
                     [] x.k = "obj" ->
                          (IF DeepEq(x, s) THEN 1 ELSE 0)
                            + SumSeq([i \in 1..Len(x.v) |-> Occurrences(x.v[i].val, s)])
                     [] OTHER -> 0
               qualifies(s) == Occurrences(input0, s) > 1 /\ JsonLen(s) >= opts.minSizeBytes
               subs == Subtrees(input0)
               registry == Prop(result, "$r")
           IN IF \A s \in subs : ~qualifies(s)
              THEN result = input0
              ELSE /\ result.k = "obj" /\ Len(result.v) = 2
                   /\ registry.k = "obj" /\ Prop(result, "d").k # "undef"
                   /\ \A s \in subs :
                         qualifies(s) <=> \E i \in 1..Len(registry.v) : DeepEq(registry.v[i].val, s)
                   /\ \A i \in 1..Len(registry.v) :
                         /\ \E s \in subs : DeepEq(registry.v[i].val, s)
                         /\ \A j \in 1..Len(registry.v) :
                               i # j => ~DeepEq(registry.v[i].val, registry.v[j].val)

\* C22 witness: equal objects written in two key orders were given one registry entry.
C22_Witness ==
    /\ op = "dedup" /\ pc = "compressed"
    /\ input0 = Label(Arr(0, <<Obj2("a", Num(1), "r", Num(1)), Obj2("r", Num(1), "a", Num(1))>>), 1)
    /\ opts.minSizeBytes = SmallMinSize
    /\ Prop(result, "$r").k = "obj"
    /\ Len(Prop(result, "$r").v) = 1

\* C23: when Dedup compress has found a candidate, the body d holds a marker
\* {$ref: id} at every position where the input has a candidate subtree, the first
\* occurrence included, with the id of the registry entry of that subtree's form;
\* no literal copy of a candidate subtree is left in d.
C23_BodyHoldsOnlyMarkers ==
    (op = "dedup" /\ pc = "compressed" /\ IsComposite(input0) /\ ~HasBackEdge(input0)
       /\ result # input0)
        => LET registry == Prop(result, "$r")
               body == Prop(result, "d")
               isEntry(x) == \E i \in 1..Len(registry.v) : DeepEq(registry.v[i].val, x)
               marker(x) ==
                   Obj1("$ref", Str(registry.v[CHOOSE i \in 1..Len(registry.v) :
                                                  DeepEq(registry.v[i].val, x)].key))
               isMarker(x) ==
                   /\ x.k = "obj" /\ Len(x.v) = 1 /\ x.v[1].key = "$ref"
                   /\ x.v[1].val.k = "str" /\ HasKey(registry.v, x.v[1].val.v)
               RECURSIVE Expected(_)
               Expected(x) ==
                   IF ~IsComposite(x) THEN x
                   ELSE IF isEntry(x) THEN marker(x)
                   ELSE IF IsArr(x) THEN Arr(0, [i \in 1..Len(x.v) |-> Expected(x.v[i])])
                   ELSE Obj(0, [i \in 1..Len(x.v) |-> Ent(x.v[i].key, Expected(x.v[i].val))])
               RECURSIVE NoLiteral(_)
               NoLiteral(x) ==
                   IF ~IsComposite(x) \/ isMarker(x) THEN TRUE
                   ELSE /\ ~isEntry(x)
                        /\ IF IsArr(x) THEN \A i \in 1..Len(x.v) : NoLiteral(x.v[i])
                           ELSE \A i \in 1..Len(x.v) : NoLiteral(x.v[i].val)
           IN /\ registry.k = "obj" /\ Len(registry.v) > 0
              /\ DeepEq(body, Expected(input0))
              /\ NoLiteral(body)

\* C23 witness: both occurrences of the repeated array, the first one included,
\* are markers in the body.
C23_Witness ==
    /\ op = "dedup" /\ pc = "compressed"
    /\ input0 = Label(Rep(Arr1(Str(LongString)), 2), 1)
    /\ opts.minSizeBytes = DefaultMinSizeBytes
    /\ DeepEq(Prop(result, "d"), Rep(Obj1("$ref", Str("r1")), 2))

\* C24: Analyzer.analyze raises "Circular reference detected" exactly when some node
\* of its argument is its own ancestor: a value that holds an array, an object or a
\* non-plain leaf such as a Date in two places, without a cycle, is analysed without
\* error.
C24_AnalyzeThrowsIffCycle ==
    (op = "analyze" /\ pc = "analyzed")
        => ((result = Thrown) <=> HasBackEdge(input0))

\* C25: refineData with pruneEmpty and pruneNull removes exactly the fields whose
\* value is null, an empty string, an empty array or an empty object, composites
\* that become empty once their children are pruned included, and keeps every other
\* field and every non-empty array element with its value; 0, false and non-empty
\* strings are kept.
C25_PruneExactlyEmpty ==
    (op = "optimize" /\ pc = "route" /\ opts.dataRefinement /\ opts.pruneEmpty /\ opts.pruneNull
       /\ IsComposite(input0))
        => LET empty(x) ==
                   \/ x.k \in {"null", "undef"}
                   \/ (x.k = "str" /\ x.v = "")
                   \/ (IsComposite(x) /\ Len(x.v) = 0)
               RECURSIVE Pruned(_)
               Pruned(x) ==
                   CASE x.k = "arr" ->
                          Arr(0, SelectSeq([i \in 1..Len(x.v) |-> Pruned(x.v[i])],
                                           LAMBDA e : ~empty(e)))
                     [] x.k = "obj" ->
                          Obj(0, SelectSeq([i \in 1..Len(x.v) |-> Ent(x.v[i].key, Pruned(x.v[i].val))],
                                           LAMBDA e : ~empty(e.val)))
                     [] OTHER -> x
           IN DeepEq(current, Pruned(input0))

\* C26: after UltraCompact compress in unsafe mode the body d holds no Boolean at any
\* depth: at the root, in object values and in array elements, arrays nested in
\* objects or in arrays included, every true has become 1 and every false 0, and
\* nothing else has changed.
C26_UnsafeBodyHasNoBoolean ==
    (op = "ultra" /\ pc = "compressed" /\ opts.unsafe /\ ~HasBackEdge(input0))
        => LET RECURSIVE NoBool(_)
               NoBool(x) ==
                   CASE x.k = "bool" -> FALSE
                     [] x.k = "arr" -> \A i \in 1..Len(x.v) : NoBool(x.v[i])
                     [] x.k = "obj" -> \A i \in 1..Len(x.v) : NoBool(x.v[i].val)
                     [] OTHER -> TRUE
               RECURSIVE Matches(_, _)
               Matches(x, y) ==
                   CASE x.k = "bool" -> y = Num(IF x.v THEN 1 ELSE 0)
                     [] x.k = "arr" ->
                          /\ y.k = "arr" /\ Len(y.v) = Len(x.v)
                          /\ \A i \in 1..Len(x.v) : Matches(x.v[i], y.v[i])
                     [] x.k = "obj" ->
                          /\ y.k = "obj" /\ Len(y.v) = Len(x.v)
                          /\ \A i \in 1..Len(x.v) : Matches(x.v[i].val, y.v[i].val)
                     [] OTHER -> DeepEq(x, y)
           IN /\ result.k = "obj"
              /\ NoBool(Prop(result, "d"))
              /\ Matches(input0, Prop(result, "d"))

\* C26 witness: a true inside an array nested in an array below an object key has
\* become 1.
C26_Witness ==
    /\ op = "ultra" /\ pc = "compressed" /\ opts.unsafe
    /\ input0 = Label(Obj1("a", Arr1(Arr1(Bool(TRUE)))), 1)
    /\ DeepEq(Prop(result, "d"), Obj1("a", Arr1(Arr1(Num(1)))))

\* C27: with a custom dictionary, restore(optimize(v, {customDict: c, ...})) called
\* after optimize has returned is deep-equal to v: the keys rewritten through c are
\* mapped back to their original names.  (The lossy options, dataRefinement and
\* unsafe, are left out.)
C27_CustomDictRoundTrip ==
    (op = "optimize" /\ pc = "restored" /\ opts.customDict /\ ~opts.dataRefinement
       /\ ~opts.unsafe /\ ~HasBackEdge(input0) /\ restored.k # "error")
        => DeepEq(restored, input0)

\* C28: in every envelope {$r, d} Dedup compress returns, every entry of the
\* registry $r is named by at least one {$ref} marker of the body d, and every marker
\* of d names an entry of the registry.
C28_RegistryAndMarkersAgree ==
    (op = "dedup" /\ pc = "compressed" /\ IsComposite(input0) /\ ~HasBackEdge(input0)
       /\ result # input0)
        => LET registry == Prop(result, "$r")
               RECURSIVE MarkerIds(_)
               MarkerIds(x) ==
                   CASE x.k = "arr" -> UNION {MarkerIds(x.v[i]) : i \in 1..Len(x.v)}
                     [] x.k = "obj" ->
                          IF Truthy(Prop(x, "$ref")) /\ Prop(x, "$ref").k = "str"
                          THEN {Prop(x, "$ref").v}
                          ELSE UNION {MarkerIds(x.v[i].val) : i \in 1..Len(x.v)}
                     [] OTHER -> {}
           IN MarkerIds(Prop(result, "d")) = {registry.v[i].key : i \in 1..Len(registry.v)}

\* C29: with validateTokenSavings off, the JSON byte length of what optimize returns
\* from its pipeline never exceeds that of the value that entered the pipeline (the
\* input, or the refined input when dataRefinement is enabled): an accepted pass
\* strictly decreases the byte length of the working value and a rejected pass
\* leaves it unchanged.
C29_BytesNeverGrow ==
    (op = "optimize" /\ pc = "returned" /\ exit = "normal" /\ ~opts.validateTokenSavings)
        => LET entered == IF opts.dataRefinement
                          THEN refineData(input0, opts.pruneEmpty, opts.pruneNull)
                          ELSE input0
           IN /\ JsonLen(result) <= JsonLen(entered)
              /\ \A i \in 1..Len(log) :
                    IF log[i].took
                    THEN JsonLen(log[i].candidate) < JsonLen(log[i].before)
                    ELSE JsonLen(log[i].after) = JsonLen(log[i].before)

====
